---- MODULE Spec2Model ----
(***************************************************************************)
(* Model of the Instagram automation tool (src/app.py): the Graph-API      *)
(* client (InstagramAPI), the schedule calculator, the submission handlers *)
(* and the scheduled-post executor.                                        *)
(*                                                                         *)
(* Time is counted in seconds since 00:00 UTC of day 0.  Character strings *)
(* whose prefix the code inspects are sequences of one-character strings.  *)
(***************************************************************************)
EXTENDS Integers, Sequences, FiniteSets, TLC

VARIABLES
    accounts,   \* table accounts: sequence of rows, primary key = index
    schedules,  \* table posting_schedule: sequence of rows
    posts,      \* table posts: sequence of rows, primary key = index
    jobs,       \* APScheduler job store: set of [id, run_date]
    thr,        \* per worker thread: position inside execute_scheduled_post
    clock,      \* datetime.utcnow(), in seconds
    audit,      \* per post id: what the executor did for it (history)
    arg,        \* the call made (function specifications)
    res         \* its output

vars == <<accounts, schedules, posts, jobs, thr, clock, audit, arg, res>>

sysvars == <<accounts, schedules, posts, jobs, thr, clock, audit>>

None == <<>>

(***************************************************************************)
(* Strings                                                                 *)
(***************************************************************************)
StartsWith(s, p) == Len(s) >= Len(p) /\ SubSeq(s, 1, Len(p)) = p

TEST == <<"t", "e", "s", "t">>

TEST_U == <<"t", "e", "s", "t", "_">>

\* access tokens
TokSim == TEST \o <<"_", "k">>

TokReal == <<"E", "A", "A", "x">>

\* usernames
UserSim == TEST_U \o <<"a">>

UserTester == TEST \o <<"e", "r">>

UserShop == <<"s", "h", "o", "p">>

\* platform account ids
IgSim == TEST \o <<"1">>

IgReal == <<"1", "7", "8">>

IgReal2 == <<"1", "7", "9">>

(***************************************************************************)
(* URLs: the code inspects the scheme prefix and whether the text mentions *)
(* localhost / 127.0.0.1.                                                  *)
(***************************************************************************)
UrlEmpty == [scheme |-> "", host |-> ""]

UrlFile == [scheme |-> "file", host |-> "disk"]

UrlLocal == [scheme |-> "http", host |-> "localhost"]

UrlLoop == [scheme |-> "https", host |-> "127.0.0.1"]

UrlPublic == [scheme |-> "https", host |-> "cdn"]

UrlPublic2 == [scheme |-> "http", host |-> "ngrok"]

IsHttp(u) == u.scheme \in {"http", "https"}

MentionsLocalhost(u) == u.host \in {"localhost", "127.0.0.1"}

(***************************************************************************)
(* The network.  Every outbound request is answered by the environment     *)
(* with one response; a composite operation consumes a script of responses *)
(* in order and yields its result together with the trace of the requests  *)
(* it issued.                                                              *)
(***************************************************************************)
\* the answers to one request: 200 with an id, 200 without an id, 200 with a
\* body that is not JSON, an error status, no answer (a network fault)
Answers == {"id", "noid", "badjson", "error", "neterr"}

\* a status that is neither 200 nor an error for raise_for_status (202)
ACCEPTED == "accepted"

\* the platform issues a fresh id with every 200 answer that carries one
FreshId(k) == <<"m", ToString(k)>>

Response(answer, k) ==
    [st |-> IF answer \in {"id", "noid", "badjson"} THEN 200
            ELSE IF answer = "error" THEN 400
            ELSE IF answer = ACCEPTED THEN 202 ELSE 0,
     body |-> answer,
     id |-> IF answer = "id" THEN FreshId(k) ELSE None]

\* the scripts of n responses: all 200-with-id answers, or one answer of
\* any kind among them (an operation returns at the first answer it cannot
\* go on with, and the requests it would issue after one show in its trace)
ShortScripts(n) ==
    { [k \in 1 .. n |-> Response(IF k = j THEN a ELSE "id", k)] :
        j \in 1 .. n, a \in Answers } \cup { [k \in 1 .. n |-> Response("id", k)] }

\* requests.exceptions.RequestException raised by requests.head/post/get
NetFault(r) == r.body = "neterr"

Req(kind, target, payload) == [kind |-> kind, target |-> target, payload |-> payload]

Ok(id, trace) == [k |-> "id", id |-> id, msg |-> None, trace |-> trace]

Err(msg, trace) == [k |-> "error", id |-> None, msg |-> msg, trace |-> trace]

\* an exception that leaves the operation
Raised(msg, trace) == [k |-> "raise", id |-> None, msg |-> msg, trace |-> trace]

\* response.json() on a body that is not JSON: a ValueError, which newer
\* versions of requests derive from RequestException; the handlers of the
\* operations catch only the latter, so the build decides.
BadJsonRaises == {TRUE, FALSE}

Token(access_token, default_token) ==
    IF access_token # None THEN access_token ELSE default_token

IsSim(token) == token # None /\ StartsWith(token, TEST)

upload_media(account_id, image_url, caption, access_token, default_token, rs, bj) ==
    LET token == Token(access_token, default_token)
        head == Req("head", image_url, "-")
        post == Req("media", account_id,
                    [image_url |-> image_url, caption |-> caption, access_token |-> token])
    IN  IF image_url = UrlEmpty THEN Err(<<"Image URL is required">>, <<>>)
        ELSE IF ~IsHttp(image_url) THEN Err(<<"Image URL must be HTTP/HTTPS">>, <<>>)
        ELSE IF MentionsLocalhost(image_url)
             THEN IF NetFault(rs[1]) THEN Err(<<"Cannot access image URL locally">>, <<head>>)
                  ELSE IF rs[1].st = 200
                       THEN Err(<<"Instagram cannot access localhost URLs">>, <<head>>)
                       ELSE Err(<<"Image not accessible even locally">>, <<head>>)
        ELSE IF NetFault(rs[1]) THEN Err(<<"Cannot access image URL">>, <<head>>)
        ELSE IF rs[1].st # 200 THEN Err(<<"Image URL not accessible">>, <<head>>)
        ELSE IF NetFault(rs[2]) THEN Err(<<"Network error during media upload">>, <<head, post>>)
        ELSE IF rs[2].st = 200
             THEN IF rs[2].body = "badjson"
                  THEN IF bj THEN Raised(<<"ValueError">>, <<head, post>>)
                       ELSE Err(<<"Network error during media upload">>, <<head, post>>)
                  ELSE IF rs[2].body = "id" THEN Ok(rs[2].id, <<head, post>>)
                  ELSE Err(<<"Instagram API error">>, <<head, post>>)
        ELSE Err(<<"Failed to upload media">>, <<head, post>>)

publish_media(account_id, creation_id, access_token, default_token, rs, bj) ==
    LET token == Token(access_token, default_token)
        post == Req("media_publish", account_id,
                    [creation_id |-> creation_id, access_token |-> token])
    IN  IF NetFault(rs[1]) THEN Err(<<"Network error during media publish">>, <<post>>)
        ELSE IF rs[1].st = 200
             THEN IF rs[1].body = "badjson"
                  THEN IF bj THEN Raised(<<"ValueError">>, <<post>>)
                       ELSE Err(<<"Network error during media publish">>, <<post>>)
                  ELSE IF rs[1].body = "id" THEN Ok(rs[1].id, <<post>>)
                  ELSE Err(<<"Instagram API error">>, <<post>>)
        ELSE Err(<<"Failed to publish media">>, <<post>>)

\* the id of a synthetic result: f"test_<what>_{account_id}_{int(time.time())}"
SyntheticId(what, account_id, now) == <<"test_", what, "_", account_id, "_", ToString(now)>>

Rest(rs, n) == SubSeq(rs, n + 1, Len(rs))

\* a feed operation that goes on to publish whatever the upload returned
post_to_instagram_unchecked(account_id, image_url, caption, access_token, default_token, rs, bj, now) ==
    LET up == upload_media(account_id, image_url, caption, access_token, default_token,
                           rs, bj)
        pb == publish_media(account_id, up.id, access_token, default_token,
                            Rest(rs, Len(up.trace)), bj)
    IN  [pb EXCEPT !.trace = up.trace \o pb.trace]

post_to_instagram(account_id, image_url, caption, access_token, default_token, rs, bj, now) ==
    IF access_token # None /\ StartsWith(access_token, TEST)
    THEN Ok(SyntheticId("post", account_id, now), <<>>)
    ELSE LET up == upload_media(account_id, image_url, caption, access_token,
                                default_token, rs, bj)
         IN  IF up.k = "raise" THEN up
             ELSE IF up.k = "error" THEN Err(<<"Upload failed: ">> \o up.msg, up.trace)
             ELSE LET pb == publish_media(account_id, up.id, access_token, default_token,
                                          Rest(rs, Len(up.trace)), bj)
                      tr == up.trace \o pb.trace
                  IN  IF pb.k = "raise" THEN Raised(pb.msg, tr)
                      ELSE IF pb.k = "error" THEN Err(<<"Publish failed: ">> \o pb.msg, tr)
                      ELSE Ok(pb.id, tr)

\* story_elements: "none" (empty), "ok" (well-formed), "bad" (an element that
\* is not a mapping, e.g. text_overlay given as a string: .get() raises)
StoryElements == {"none", "ok", "bad"}

post_story(account_id, image_url, story_elements, access_token, default_token, rs, bj, now) ==
    LET token == Token(access_token, default_token)
        post == Req("media", account_id,
                    [image_url |-> image_url, media_type |-> "STORIES",
                     elements |-> story_elements, access_token |-> token])
    IN  IF IsSim(token) THEN Ok(SyntheticId("story", account_id, now), <<>>)
        ELSE IF story_elements = "bad" THEN Raised(<<"AttributeError">>, <<>>)
        ELSE IF NetFault(rs[1]) THEN Err(<<"Network error during story creation">>, <<post>>)
        ELSE IF rs[1].body = "badjson"
             THEN IF bj THEN Raised(<<"ValueError">>, <<post>>)
                  ELSE Err(<<"Network error during story creation">>, <<post>>)
        ELSE IF rs[1].st = 200
             THEN IF rs[1].body = "id"
                  THEN LET pb == publish_media(account_id, rs[1].id, token, default_token,
                                               Rest(rs, 1), bj)
                       IN  [pb EXCEPT !.trace = <<post>> \o pb.trace]
                  ELSE Err(<<"Story creation failed">>, <<post>>)
        ELSE Err(<<"Failed to create story">>, <<post>>)

ChildReq(account_id, image_url, token) ==
    Req("media", account_id,
        [image_url |-> image_url, is_carousel_item |-> "true", access_token |-> token])

\* a collection of child ids that puts the newest first
Collect_front(media_ids, id) == <<id>> \o media_ids

\* media_ids.append(result['id'])
Collect(media_ids, id) == Append(media_ids, id)

\* a loop over image_urls that leaves a failed child out and goes on
RECURSIVE CarouselChildren_skipping(_, _, _, _, _, _, _, _)
CarouselChildren_skipping(account_id, image_urls, token, rs, bj, i, media_ids, trace) ==
    IF i > Len(image_urls) THEN [k |-> "done", media_ids |-> media_ids, trace |-> trace]
    ELSE LET r == rs[Len(trace) + 1]
             tr == Append(trace, ChildReq(account_id, image_urls[i], token))
         IN  CarouselChildren_skipping(account_id, image_urls, token, rs, bj, i + 1,
                 IF r.body = "id" THEN Collect(media_ids, r.id) ELSE media_ids, tr)

\* the loop over image_urls: children created so far and the requests issued
RECURSIVE CarouselChildren(_, _, _, _, _, _, _, _)
CarouselChildren(account_id, image_urls, token, rs, bj, i, media_ids, trace) ==
    IF i > Len(image_urls) THEN [k |-> "done", media_ids |-> media_ids, trace |-> trace]
    ELSE LET r == rs[Len(trace) + 1]
             tr == Append(trace, ChildReq(account_id, image_urls[i], token))
         IN  IF NetFault(r) THEN Err(<<"Network error creating container for image", ToString(i)>>, tr)
             ELSE IF r.body = "badjson"
                  THEN IF bj THEN Raised(<<"ValueError">>, tr)
                       ELSE Err(<<"Network error creating container for image", ToString(i)>>, tr)
             ELSE IF r.st = 200
                  THEN IF r.body = "id"
                       THEN CarouselChildren(account_id, image_urls, token, rs, bj, i + 1,
                                             Collect(media_ids, r.id), tr)
                       ELSE Err(<<"Failed to create container for image", ToString(i)>>, tr)
             ELSE Err(<<"Failed to create container for image", ToString(i)>>, tr)

post_carousel(account_id, image_urls, caption, access_token, default_token, rs, bj, now) ==
    LET token == Token(access_token, default_token)
    IN  IF IsSim(token) THEN Ok(SyntheticId("carousel", account_id, now), <<>>)
        ELSE LET ch == CarouselChildren(account_id, image_urls, token, rs, bj, 1, <<>>, <<>>)
             IN  IF ch.k # "done" THEN ch
                 ELSE LET parent == Req("media", account_id,
                                        [media_type |-> "CAROUSEL", children |-> ch.media_ids,
                                         caption |-> caption, access_token |-> token])
                          tr == Append(ch.trace, parent)
                          r == rs[Len(tr)]
                      IN  IF NetFault(r) THEN Err(<<"Network error during carousel creation">>, tr)
                          ELSE IF r.body = "badjson"
                               THEN IF bj THEN Raised(<<"ValueError">>, tr)
                                    ELSE Err(<<"Network error during carousel creation">>, tr)
                          ELSE IF r.st = 200
                               THEN IF r.body = "id"
                                    THEN LET pb == publish_media(account_id, r.id, token,
                                                       default_token, Rest(rs, Len(tr)), bj)
                                         IN  [pb EXCEPT !.trace = tr \o pb.trace]
                                    ELSE Err(<<"Carousel creation failed">>, tr)
                          ELSE Err(<<"Failed to create carousel">>, tr)

(***************************************************************************)
(* carousel_post.py: the stand-alone carousel script                       *)
(***************************************************************************)
MAX_RETRIES == 3

RETRY_BACKOFF == 2

\* a function that falls off its end returns None
Returned(trace) == [k |-> "none", id |-> None, msg |-> None, trace |-> trace]

\* a retry loop that waits RETRY_BACKOFF after every failed attempt
RECURSIVE RetryStep_flat(_, _, _, _, _)
RetryStep_flat(req, rs, attempt, trace, waits) ==
    LET r == rs[Len(trace) + 1]
        tr == Append(trace, req)
        w == Append(waits, RETRY_BACKOFF)
    IN  IF NetFault(r) THEN Raised(<<"RequestException">>, tr) @@ [waits |-> waits]
        ELSE IF r.st = 200
             THEN IF r.body = "badjson" THEN Raised(<<"ValueError">>, tr) @@ [waits |-> waits]
                  ELSE IF r.body = "id" THEN Ok(r.id, tr) @@ [waits |-> waits]
                  ELSE Raised(<<"RuntimeError">>, tr) @@ [waits |-> waits]
        ELSE IF attempt = MAX_RETRIES
             THEN IF r.st >= 400 THEN Raised(<<"HTTPError">>, tr) @@ [waits |-> waits]
                  ELSE Returned(tr) @@ [waits |-> w]
        ELSE RetryStep_flat(req, rs, attempt + 1, tr, w)

\* the loop "for attempt in range(1, MAX_RETRIES + 1)" of the request
\* functions: a non-200 answer is retried after time.sleep(RETRY_BACKOFF *
\* attempt); after the last attempt raise_for_status raises for a status of
\* 400 or more, and for any other status the loop ends and the function
\* returns None; a 200 answer without id raises RuntimeError; nothing is
\* caught.  waits are the sleeps of the loop.
RECURSIVE RetryStep(_, _, _, _, _)
RetryStep(req, rs, attempt, trace, waits) ==
    LET r == rs[Len(trace) + 1]
        tr == Append(trace, req)
        w == Append(waits, RETRY_BACKOFF * attempt)
    IN  IF NetFault(r) THEN Raised(<<"RequestException">>, tr) @@ [waits |-> waits]
        ELSE IF r.st = 200
             THEN IF r.body = "badjson" THEN Raised(<<"ValueError">>, tr) @@ [waits |-> waits]
                  ELSE IF r.body = "id" THEN Ok(r.id, tr) @@ [waits |-> waits]
                  ELSE Raised(<<"RuntimeError">>, tr) @@ [waits |-> waits]
        ELSE IF attempt = MAX_RETRIES
             THEN IF r.st >= 400 THEN Raised(<<"HTTPError">>, tr) @@ [waits |-> waits]
                  ELSE Returned(tr) @@ [waits |-> w]
        ELSE RetryStep(req, rs, attempt + 1, tr, w)

\* a request function as its caller sees it
RetryPost(req, rs, attempt, trace) ==
    LET s == RetryStep(req, rs, attempt, trace, <<>>)
    IN  [k |-> s.k, id |-> s.id, msg |-> s.msg, trace |-> s.trace]

create_child_container(ig_user_id, access_token, image_url, rs, trace) ==
    RetryPost(ChildReq(ig_user_id, image_url, access_token), rs, 1, trace)

\* ",".join(child_ids) raises TypeError on a child id that is None
create_carousel_container(ig_user_id, access_token, child_ids, caption, rs, trace) ==
    IF \E i \in DOMAIN child_ids : child_ids[i] = None
    THEN Raised(<<"TypeError">>, trace)
    ELSE RetryPost(Req("media", ig_user_id,
                       [media_type |-> "CAROUSEL", children |-> child_ids,
                        caption |-> caption, access_token |-> access_token]), rs, 1, trace)

publish_carousel(ig_user_id, access_token, creation_id, rs, trace) ==
    RetryPost(Req("media_publish", ig_user_id,
                  [creation_id |-> creation_id, access_token |-> access_token]), rs, 1, trace)

\* main: the loop over image_urls
RECURSIVE MainChildren(_, _, _, _, _, _, _)
MainChildren(ig_user_id, access_token, image_urls, rs, i, child_ids, trace) ==
    IF i > Len(image_urls) THEN [k |-> "done", media_ids |-> child_ids, trace |-> trace]
    ELSE LET c == create_child_container(ig_user_id, access_token, image_urls[i], rs, trace)
         IN  IF c.k = "raise" THEN c
             ELSE MainChildren(ig_user_id, access_token, image_urls, rs, i + 1,
                               Append(child_ids, c.id), c.trace)

\* main: children, parent, publish; any exception ends it with sys.exit(1),
\* and a step that returned leads to the next
carousel_post_main(image_urls, ig_user_id, access_token, rs) ==
    LET ch == MainChildren(ig_user_id, access_token, image_urls, rs, 1, <<>>, <<>>)
    IN  IF ch.k # "done" THEN ch
        ELSE LET pa == create_carousel_container(ig_user_id, access_token, ch.media_ids,
                                                 "MBBS Quotes Carousel", rs, ch.trace)
             IN  IF pa.k = "raise" THEN pa
                 ELSE publish_carousel(ig_user_id, access_token, pa.id, rs, pa.trace)

(***************************************************************************)
(* story_post.py: the stand-alone story script                             *)
(***************************************************************************)
create_story_container(ig_user_id, access_token, image_url, rs, trace) ==
    RetryPost(Req("media", ig_user_id,
                  [image_url |-> image_url, is_story |-> "true",
                   access_token |-> access_token]), rs, 1, trace)

publish_story(ig_user_id, access_token, creation_id, rs, trace) ==
    RetryPost(Req("media_publish", ig_user_id,
                  [creation_id |-> creation_id, access_token |-> access_token]), rs, 1, trace)

story_post_main(image_url, ig_user_id, access_token, rs) ==
    LET co == create_story_container(ig_user_id, access_token, image_url, rs, <<>>)
    IN  IF co.k = "raise" THEN co
        ELSE publish_story(ig_user_id, access_token, co.id, rs, co.trace)

\* the exit status of a script: sys.exit(1) in the handler of main
ExitStatus(result) == IF result.k = "raise" THEN 1 ELSE 0

collect_post_metrics(post_id, post_type, access_token, default_token, rs, bj) ==
    LET token == Token(access_token, default_token)
        get == Req("insights", post_id,
                   [metric |-> IF post_type = "story" THEN "story_metrics"
                               ELSE IF post_type = "carousel" THEN "carousel_metrics"
                               ELSE "feed_metrics",
                    access_token |-> token])
    IN  IF IsSim(token)
        THEN [k |-> "metrics", id |-> None, msg |-> <<"mock">>, trace |-> <<>>]
        ELSE IF NetFault(rs[1]) THEN [k |-> "metrics", id |-> None, msg |-> <<"empty">>, trace |-> <<get>>]
        ELSE IF rs[1].st = 200
             THEN IF rs[1].body = "badjson"
                  THEN IF bj THEN Raised(<<"ValueError">>, <<get>>)
                       ELSE [k |-> "metrics", id |-> None, msg |-> <<"empty">>, trace |-> <<get>>]
                  ELSE [k |-> "metrics", id |-> None, msg |-> <<"fetched">>, trace |-> <<get>>]
        ELSE [k |-> "metrics", id |-> None, msg |-> <<"empty">>, trace |-> <<get>>]


(***************************************************************************)
(* Time                                                                    *)
(***************************************************************************)
DAY == 86400

HOUR == 3600

\* pytz Asia/Kolkata: UTC+05:30, no daylight saving
IST_OFFSET == 19800

Date(t) == t \div DAY

TimeOfDay(t) == t % DAY

\* datetime.combine(date, time)
Combine(date, tod) == date * DAY + tod

\* datetime.now(pytz.timezone('Asia/Kolkata')) as a wall-clock reading
LocalNow(utcnow) == utcnow + IST_OFFSET

\* ist.localize(t).astimezone(pytz.UTC).replace(tzinfo=None)
ToUTC(local) == local - IST_OFFSET

(***************************************************************************)
(* Schedule calculator                                                     *)
(***************************************************************************)
\* random.randint(-variance_seconds, variance_seconds)
JitterOffsets(variance_minutes) ==
    (0 - variance_minutes * 60) .. (variance_minutes * 60)

calculate_post_time(base_time, random_offset) == base_time + random_offset

\* PostingSchedule.query.filter_by(account_id=..., is_active=True).first()
ActiveSchedule(scheds, account_id) ==
    LET ids == {i \in DOMAIN scheds :
                    scheds[i].account_id = account_id /\ scheds[i].is_active}
    IN  IF ids = {} THEN None
        ELSE scheds[CHOOSE i \in ids : \A j \in ids : i <= j]

\* a slot selection that never moves on to the next day
BaseSlot_today_only(now, schedule) ==
    IF TimeOfDay(now) < schedule.time_slot_1
    THEN Combine(Date(now), schedule.time_slot_1)
    ELSE Combine(Date(now), schedule.time_slot_2)

\* the slot chosen by get_next_available_slot, before jitter (local time)
BaseSlot(now, schedule) ==
    IF TimeOfDay(now) < schedule.time_slot_1
    THEN Combine(Date(now), schedule.time_slot_1)
    ELSE IF TimeOfDay(now) < schedule.time_slot_2
         THEN Combine(Date(now), schedule.time_slot_2)
         ELSE Combine(Date(now) + 1, schedule.time_slot_1)

\* the scheduled time in local time, before the conversion to UTC
NextSlotLocal(now, schedule, random_offset) ==
    calculate_post_time(BaseSlot(now, schedule), random_offset)

get_next_available_slot(scheds, account_id, utcnow, random_offset) ==
    LET now == LocalNow(utcnow)
        schedule == ActiveSchedule(scheds, account_id)
    IN  IF schedule # None
        THEN ToUTC(NextSlotLocal(now, schedule, random_offset))
        ELSE utcnow

story_hours == <<6, 8, 10, 12, 14, 16, 18, 20, 22, 0, 2>>

\* a story slot that is the smallest cadence hour after the current hour
get_next_story_slot_smallest(account_id, utcnow) ==
    LET now == LocalNow(utcnow)
        current_hour == TimeOfDay(now) \div HOUR
        later == {story_hours[i] : i \in DOMAIN story_hours} \cap (current_hour + 1 .. 23)
    IN  ToUTC(IF later # {}
              THEN Combine(Date(now), (CHOOSE h \in later : \A g \in later : h <= g) * HOUR)
              ELSE Combine(Date(now) + 1, 6 * HOUR))

get_next_story_slot(account_id, utcnow) ==
    LET now == LocalNow(utcnow)
        current_hour == TimeOfDay(now) \div HOUR
        later == {i \in DOMAIN story_hours : story_hours[i] > current_hour}
        next_slot ==
            IF later # {}
            THEN Combine(Date(now),
                         story_hours[CHOOSE i \in later : \A j \in later : i <= j] * HOUR)
            ELSE Combine(Date(now) + 1, 6 * HOUR)
    IN  ToUTC(next_slot)

DailyLimit == 25

\* a count that does not leave out the cancelled posts
get_daily_post_count_all(ps, account_id, date) ==
    Cardinality({i \in DOMAIN ps :
        /\ ps[i].account_id = account_id
        /\ ps[i].scheduled_time >= Combine(date, 0)
        /\ ps[i].scheduled_time <= Combine(date, DAY - 1)})

\* Post.get_daily_post_count(account_id, date)
get_daily_post_count(ps, account_id, date) ==
    Cardinality({i \in DOMAIN ps :
        /\ ps[i].account_id = account_id
        /\ ps[i].scheduled_time >= Combine(date, 0)
        /\ ps[i].scheduled_time <= Combine(date, DAY - 1)
        /\ ps[i].status # "cancelled"})

queue_next_available_time(ps, scheds, account_id, utcnow, random_offset) ==
    LET today == Date(utcnow)
        daily_count == get_daily_post_count(ps, account_id, today)
    IN  IF daily_count >= DailyLimit
        THEN Combine(today + 1, 6 * HOUR)
        ELSE get_next_available_slot(scheds, account_id, utcnow, random_offset)

calculate_scheduled_time(ps, scheds, schedule_type, account_id, utcnow, random_offset) ==
    IF schedule_type = "now" THEN utcnow
    ELSE IF schedule_type = "next_slot"
         THEN get_next_available_slot(scheds, account_id, utcnow, random_offset)
         ELSE utcnow

calculate_story_schedule_time(ps, scheds, schedule_type, account_id, utcnow, random_offset) ==
    IF schedule_type = "now" THEN utcnow
    ELSE IF schedule_type = "auto_story" THEN get_next_story_slot(account_id, utcnow)
    ELSE IF schedule_type = "queue"
         THEN queue_next_available_time(ps, scheds, account_id, utcnow, random_offset)
         ELSE utcnow


(***************************************************************************)
(* Bounds of the model                                                     *)
(***************************************************************************)
MaxAccounts == 1

MaxNewPosts == 1

MaxImages == 2

\* images of a carousel given to InstagramAPI.post_carousel or to the script
MaxCarousel == 3

MaxTicks == 1

\* a request thread and a scheduler pool thread
Threads == {"web", "worker"}

TickStep == DAY

StartClock == 10 * DAY + 12 * HOUR

NoTime == 0 - 1

(***************************************************************************)
(* Accounts                                                                *)
(***************************************************************************)
Digits == {"0", "1", "2", "3", "4", "5", "6", "7", "8", "9"}

\* validate_access_token / validate_account_id; the model's short strings
\* stand for strings of the required length
validate_access_token(access_token) ==
    access_token # None /\ StartsWith(access_token, <<"E", "A", "A">>)

validate_account_id(account_id) ==
    account_id # None /\ \A i \in DOMAIN account_id : account_id[i] \in Digits

\* answer: what the platform says when asked, None (an error) or [id, username]
get_account_info(account_id, access_token, answer) ==
    IF ~validate_access_token(access_token) THEN None
    ELSE IF ~validate_account_id(account_id) THEN None
    ELSE answer

is_test_account(username, instagram_id, access_token) ==
    \/ StartsWith(username, TEST_U)
    \/ StartsWith(instagram_id, TEST)
    \/ StartsWith(access_token, TEST)

AccountRow(username, instagram_id, access_token, validated) ==
    [username |-> username, instagram_id |-> instagram_id,
     access_token |-> access_token, is_active |-> TRUE,
     validated |-> validated]   \* validated: history, not a column

DefaultSchedule(account_id) ==
    [account_id |-> account_id, time_slot_1 |-> 13 * HOUR, time_slot_2 |-> 22 * HOUR,
     variance_minutes |-> 15, is_active |-> TRUE]

\* the registration forms submitted: <<username, instagram_id, access_token>>
RegistrationForms ==
    { <<UserSim, IgSim, TokSim>>, <<UserShop, IgReal, TokSim>>,
      <<UserSim, IgReal, TokReal>>, <<UserShop, IgSim, TokReal>>,
      <<UserTester, IgReal, TokReal>>, <<UserShop, IgReal, TokReal>> }

\* unique=True on accounts.username and accounts.instagram_id
UniqueViolation(accts, username, instagram_id) ==
    \E i \in DOMAIN accts :
        accts[i].username = username \/ accts[i].instagram_id = instagram_id

StoreAccount(username, instagram_id, access_token, validated) ==
    /\ accounts' = Append(accounts,
                          AccountRow(username, instagram_id, access_token, validated))
    /\ schedules' = Append(schedules, DefaultSchedule(Len(accounts) + 1))

\* a handler that stores the row whatever the table holds
add_account_unconstrained(username, instagram_id, access_token, answer) ==
    IF is_test_account(username, instagram_id, access_token)
    THEN StoreAccount(username, instagram_id, access_token, FALSE)
    ELSE LET account_info == get_account_info(instagram_id, access_token, answer)
         IN  IF account_info = None
             THEN UNCHANGED <<accounts, schedules>>
             ELSE IF account_info.id # instagram_id
                  THEN UNCHANGED <<accounts, schedules>>
                  ELSE StoreAccount(account_info.username, instagram_id,
                                    access_token, TRUE)

add_account(username, instagram_id, access_token, answer) ==
    IF UniqueViolation(accounts, username, instagram_id)
    THEN UNCHANGED <<accounts, schedules>>
    ELSE IF is_test_account(username, instagram_id, access_token)
         THEN StoreAccount(username, instagram_id, access_token, FALSE)
         ELSE LET account_info == get_account_info(instagram_id, access_token, answer)
              IN  IF account_info = None
                  THEN UNCHANGED <<accounts, schedules>>
                  ELSE IF account_info.id # instagram_id
                       THEN UNCHANGED <<accounts, schedules>>
                       ELSE IF UniqueViolation(accounts, account_info.username, instagram_id)
                            THEN UNCHANGED <<accounts, schedules>>
                            ELSE StoreAccount(account_info.username, instagram_id,
                                              access_token, TRUE)

\* accounts.is_active is cleared by the operator of the database
Deactivate(a) ==
    /\ a \in DOMAIN accounts
    /\ accounts[a].is_active
    /\ accounts' = [accounts EXCEPT ![a].is_active = FALSE]
    /\ UNCHANGED <<schedules, posts, jobs, thr, clock, audit, arg, res>>

(***************************************************************************)
(* Submission handlers                                                     *)
(***************************************************************************)
\* provider: what the storage backends yield for a real account
Providers == {"gcs", "none"}

\* a resolver that falls back to the local address
get_public_url_for_file_local(account, provider) ==
    IF StartsWith(account.access_token, TEST) THEN UrlLocal
    ELSE IF provider = "gcs" THEN UrlPublic
    ELSE IF provider = "ngrok" THEN UrlPublic2
    ELSE UrlLocal

get_public_url_for_file(account, provider) ==
    IF StartsWith(account.access_token, TEST) THEN UrlLocal
    ELSE IF provider = "gcs" THEN UrlPublic
    ELSE IF provider = "ngrok" THEN UrlPublic2
    ELSE None

PostTypes == {"feed", "story", "carousel"}

ScheduleTypes == {"now", "next_slot", "auto_story", "queue", "specific"}

Routes == {"upload", "api"}

PostRow(account_id, post_type, media_urls, story_elements, scheduled_time, now) ==
    [account_id |-> account_id, post_type |-> post_type, media_urls |-> media_urls,
     story_elements |-> story_elements, scheduled_time |-> scheduled_time,
     actual_post_time |-> NoTime, status |-> "scheduled",
     instagram_post_id |-> None, error_message |-> None,
     created_at |-> now, updated_at |-> now]

\* history of a post: the composite operations dispatched for it (0, 1, or 2
\* for two and more), whether one of them issued a request, and which of the program's own calls of the
\* executor (immediate or by job) came before / exactly at scheduled_time
NoAudit == [composites |-> 0, outbound |-> FALSE, early |-> {}, exact |-> {}]

IdleThread == [pc |-> "idle", id |-> 0]

CallThread(id) == [pc |-> "call", id |-> id]

\* the history of a call of the executor made by the program itself
Called(au, ps, id, src, now) ==
    IF id \notin DOMAIN ps THEN au
    ELSE IF now < ps[id].scheduled_time
         THEN [au EXCEPT ![id].early = @ \cup {src}]
         ELSE IF now = ps[id].scheduled_time
              THEN [au EXCEPT ![id].exact = @ \cup {src}]
              ELSE au

\* the override computed by the upload route (None: no override)
UploadOverride(ps, account_id, utcnow) ==
    IF get_daily_post_count(ps, account_id, Date(utcnow)) >= DailyLimit
    THEN Combine(Date(utcnow) + 1, 6 * HOUR)
    ELSE NoTime

HandlerScheduledTime(ps, scheds, route, post_type, schedule_type, account_id, utcnow, off) ==
    LET override == IF route = "upload" THEN UploadOverride(ps, account_id, utcnow)
                    ELSE NoTime
    IN  IF override # NoTime THEN override
        ELSE IF post_type = "story"
             THEN calculate_story_schedule_time(ps, scheds, schedule_type, account_id,
                                                utcnow, off)
             ELSE calculate_scheduled_time(ps, scheds, schedule_type, account_id,
                                           utcnow, off)

\* schedule_post_execution: run in the request's thread, or register a job
schedule_post_execution(t, id, scheduled_time, schedule_type) ==
    IF schedule_type = "now"
    THEN /\ thr' = [thr EXCEPT ![t] = CallThread(id)]
         /\ audit' = Called(Append(audit, NoAudit), posts', id, "now", clock)
         /\ UNCHANGED jobs
    ELSE /\ jobs' = {j \in jobs : j.id # id} \cup {[id |-> id, run_date |-> scheduled_time]}
         /\ audit' = Append(audit, NoAudit)
         /\ UNCHANGED thr

\* of the jitter offsets, the system specifications draw the two extremes
\* (the schedule specification draws all of them)
SampledOffsets(account_id) ==
    LET schedule == ActiveSchedule(schedules, account_id)
    IN  IF schedule = None THEN {0}
        ELSE {0 - schedule.variance_minutes * 60, schedule.variance_minutes * 60}

\* the posts submitted since the start of the observed run
NewPosts(ps) == Cardinality({i \in DOMAIN ps : ps[i].created_at >= StartClock})

\* len(files) > 20
MaxCarouselFiles == 20

\* handlers that store whatever number of files they are given
Submit_unlimited(t, route, account_id, post_type, schedule_type, n_images, story_elements, providers, off) ==
    /\ schedule_type = "now" => thr[t].pc = "idle"
    /\ NewPosts(posts) < MaxNewPosts
    /\ account_id \in DOMAIN accounts
    /\ LET account == accounts[account_id]
           n == IF post_type = "carousel" THEN n_images ELSE 1
           image_urls == [i \in 1 .. n |-> get_public_url_for_file(account, providers[i])]
           scheduled_time == HandlerScheduledTime(posts, schedules, route, post_type,
                                 schedule_type, account_id, clock, off)
           elements == IF post_type = "story" THEN story_elements ELSE "none"
           id == Len(posts) + 1
       IN  IF \E i \in 1 .. n : image_urls[i] = None
           THEN UNCHANGED <<posts, audit, jobs, thr>>
           ELSE /\ posts' = Append(posts, PostRow(account_id, post_type, image_urls,
                                                 elements, scheduled_time, clock))
                /\ schedule_post_execution(t, id, scheduled_time, schedule_type)
    /\ UNCHANGED <<accounts, schedules, clock, res>>

\* upload() / api_post() with handle_*_post / api_handle_*_post
Submit(t, route, account_id, post_type, schedule_type, n_images, story_elements, providers, off) ==
    /\ schedule_type = "now" => thr[t].pc = "idle"
    /\ NewPosts(posts) < MaxNewPosts
    /\ account_id \in DOMAIN accounts
    /\ LET account == accounts[account_id]
           n == IF post_type = "carousel" THEN n_images ELSE 1
           image_urls == [i \in 1 .. n |-> get_public_url_for_file(account, providers[i])]
           scheduled_time == HandlerScheduledTime(posts, schedules, route, post_type,
                                 schedule_type, account_id, clock, off)
           elements == IF post_type = "story" THEN story_elements ELSE "none"
           id == Len(posts) + 1
       IN  IF n = 0 \/ n > MaxCarouselFiles
           THEN UNCHANGED <<posts, audit, jobs, thr>>
           ELSE IF \E i \in 1 .. n : image_urls[i] = None
                THEN UNCHANGED <<posts, audit, jobs, thr>>
                ELSE /\ posts' = Append(posts, PostRow(account_id, post_type, image_urls,
                                                      elements, scheduled_time, clock))
                     /\ schedule_post_execution(t, id, scheduled_time, schedule_type)
    /\ UNCHANGED <<accounts, schedules, clock, res>>

\* posts.status set to 'cancelled' by an external actor
Cancel(id) ==
    /\ id \in DOMAIN posts
    /\ posts[id].status = "scheduled"
    /\ posts' = [posts EXCEPT ![id].status = "cancelled", ![id].updated_at = clock]
    /\ UNCHANGED <<accounts, schedules, jobs, thr, clock, audit, arg, res>>


(***************************************************************************)
(* execute_scheduled_post, step by step.  A thread that runs it holds the  *)
(* row it loaded in its own session; `dirty' are the attributes it has     *)
(* assigned and not yet committed.                                         *)
(***************************************************************************)
\* the number of responses the publish sequence of a post can consume
NeededResponses(post, account) ==
    IF StartsWith(account.access_token, TEST) THEN 0
    ELSE IF post.post_type = "story" THEN 2
    ELSE IF post.post_type = "carousel" THEN Len(post.media_urls) + 2
    ELSE 3

\* the dispatch by post type (the caption is not modelled)
Dispatch(post, account, rs, bj, now) ==
    IF post.post_type = "story"
    THEN post_story(account.instagram_id, post.media_urls[1], post.story_elements,
                    account.access_token, None, rs, bj, now)
    ELSE IF post.post_type = "carousel"
         THEN post_carousel(account.instagram_id, post.media_urls, "caption",
                            account.access_token, None, rs, bj, now)
         ELSE post_to_instagram(account.instagram_id, post.media_urls[1], "caption",
                                account.access_token, None, rs, bj, now)

\* the attributes assigned for a result of the publisher
ResultDirty(result, now) ==
    IF result.k = "raise"
    THEN [status |-> "failed", error_message |-> result.msg]
    ELSE IF result.k = "id"
         THEN [status |-> "posted", instagram_post_id |-> result.id,
               actual_post_time |-> now]
         ELSE IF result.k = "error"
              THEN [status |-> "failed", error_message |-> result.msg]
              ELSE [status |-> "failed",
                    error_message |-> <<"Unknown error occurred while posting to Instagram">>]

\* UPDATE posts SET <dirty attributes>, updated_at = now WHERE id = ...
Flush(row, dirty, now) ==
    [f \in DOMAIN row |->
        IF f = "updated_at" THEN now
        ELSE IF f \in DOMAIN dirty THEN dirty[f] ELSE row[f]]

\* a job whose run date has come is handed to a pool thread
JobFire(t, j) ==
    /\ thr[t].pc = "idle"
    /\ j \in jobs
    /\ clock >= j.run_date
    /\ jobs' = jobs \ {j}
    /\ thr' = [thr EXCEPT ![t] = CallThread(j.id)]
    /\ audit' = Called(audit, posts, j.id, "job", clock)
    /\ UNCHANGED <<accounts, schedules, posts, clock, arg, res>>

\* execute_scheduled_post(post_id) called by any other caller
Invoke(t, id) ==
    /\ thr[t].pc = "idle"
    /\ thr' = [thr EXCEPT ![t] = CallThread(id)]
    /\ UNCHANGED <<accounts, schedules, posts, jobs, clock, audit, arg, res>>

\* an entry guard that does not look at the status
PassesGuard_any_status(ps, id) == id \in DOMAIN ps

\* the entry guard: Post.query.get(post_id), status check
PassesGuard(ps, id) == id \in DOMAIN ps /\ ps[id].status = "scheduled"

ExecLoad(t) ==
    /\ thr[t].pc = "call"
    /\ IF PassesGuard(posts, thr[t].id)
       THEN thr' = [thr EXCEPT ![t].pc = "run"]
       ELSE thr' = [thr EXCEPT ![t] = IdleThread]
    /\ UNCHANGED <<accounts, schedules, posts, jobs, clock, audit, arg, res>>

\* a try block that does not look at the media URL list
ExecDirty_any_media(post, accts, result, dbfault, now) ==
    IF dbfault
    THEN [status |-> "failed", error_message |-> <<"OperationalError">>]
    ELSE IF post.account_id \notin DOMAIN accts \/ ~accts[post.account_id].is_active
    THEN [status |-> "failed", error_message |-> <<"Account not found or inactive">>]
    ELSE ResultDirty(result, now)

\* what the try block assigns: dbfault is a failure of the account lookup,
\* result the value returned (or the exception raised) by the publisher
ExecDirty(post, accts, result, dbfault, now) ==
    IF dbfault
    THEN [status |-> "failed", error_message |-> <<"OperationalError">>]
    ELSE IF post.account_id \notin DOMAIN accts \/ ~accts[post.account_id].is_active
    THEN [status |-> "failed", error_message |-> <<"Account not found or inactive">>]
    ELSE IF post.media_urls = <<>>
    THEN [status |-> "failed", error_message |-> <<"No media URLs found">>]
    ELSE ResultDirty(result, now)

\* whether the try block reaches the dispatch to the publisher
Dispatches(post, accts, dbfault) ==
    /\ ~dbfault
    /\ post.account_id \in DOMAIN accts
    /\ accts[post.account_id].is_active
    /\ post.media_urls # <<>>

\* the results the publisher can return for the post, over all the answers
\* of the network
PossibleResults(post, accts, now) ==
    IF ~Dispatches(post, accts, FALSE) THEN {Err(None, <<>>)}
    ELSE LET account == accts[post.account_id]
         IN  {Dispatch(post, account, rs, bj, now) :
                 rs \in ShortScripts(NeededResponses(post, account)),
                 bj \in BadJsonRaises}

\* the try block, post.updated_at = datetime.utcnow() and db.session.commit();
\* commitfault: the commit raises, nothing is stored and the exception
\* leaves the function
ExecRun(t, result, dbfault, commitfault) ==
    /\ thr[t].pc = "run"
    /\ LET id == thr[t].id
           post == posts[id]
           dirty == ExecDirty(post, accounts, result, dbfault, clock)
       IN  /\ posts' = IF commitfault THEN posts
                       ELSE [posts EXCEPT ![id] = Flush(@, dirty, clock)]
           /\ audit' = IF Dispatches(post, accounts, dbfault)
                       THEN [audit EXCEPT ![id].composites = IF @ < 2 THEN @ + 1 ELSE @,
                                          ![id].outbound = @ \/ result.trace # <<>>]
                       ELSE audit
    /\ thr' = [thr EXCEPT ![t] = IdleThread]
    /\ UNCHANGED <<accounts, schedules, jobs, clock, arg, res>>

Tick ==
    /\ clock < StartClock + MaxTicks * TickStep
    /\ clock' = clock + TickStep
    /\ UNCHANGED <<accounts, schedules, posts, jobs, thr, audit, arg, res>>


(***************************************************************************)
(* The system: accounts, submissions, jobs and executor threads            *)
(***************************************************************************)
\* the databases the runs start from: one registered account, a simulation
\* account or a validated real one
InitialAccounts ==
    { AccountRow(UserSim, IgSim, TokSim, FALSE),
      AccountRow(UserShop, IgReal, TokReal, TRUE) }

Init ==
    /\ \E account \in InitialAccounts : accounts = <<account>>
    /\ schedules = <<DefaultSchedule(1)>>
    /\ posts = <<>>
    /\ audit = <<>>
    /\ jobs = {}
    /\ thr = [t \in Threads |-> IdleThread]
    /\ clock = StartClock
    /\ arg = None
    /\ res = None

\* what the platform can answer about an account id: an error, or the id
\* and the username it knows
PlatformAnswers(username, instagram_id) ==
    {None} \cup [id : {instagram_id, IgReal2}, username : {username, UserShop}]

\* the requests a client can submit, each input drawn only where it is read
SubmissionOf(a, pt, n) ==
    \E route \in Routes, st \in ScheduleTypes :
      \E t \in {"web"},
         el \in (IF pt = "story" THEN StoryElements ELSE {"none"}),
         pr \in [1 .. n -> (IF StartsWith(accounts[a].access_token, TEST) THEN {"gcs"}
                            ELSE Providers)],
         off \in (IF st \in {"next_slot", "queue"} THEN SampledOffsets(a) ELSE {0}) :
        Submit(t, route, a, pt, st, n, el, pr, off)

Submission ==
    /\ \E a \in DOMAIN accounts, pt \in PostTypes :
         \E n \in (IF pt = "carousel" THEN 1 .. MaxImages ELSE {1}) : SubmissionOf(a, pt, n)
    /\ UNCHANGED arg

Registration ==
    /\ Len(accounts) < MaxAccounts
    /\ \E f \in RegistrationForms :
         \E answer \in PlatformAnswers(f[1], f[2]) : add_account(f[1], f[2], f[3], answer)
    /\ UNCHANGED <<posts, jobs, thr, clock, audit, arg, res>>

Execution ==
    \/ \E j \in jobs : JobFire("worker", j)
    \/ \E t \in Threads : ExecLoad(t)
    \/ \E t \in Threads, dbfault \in BOOLEAN, commitfault \in BOOLEAN :
         /\ thr[t].pc = "run"
         /\ \E result \in PossibleResults(posts[thr[t].id], accounts, clock) :
              ExecRun(t, result, dbfault, commitfault)

Next ==
    \/ \E a \in DOMAIN accounts : Deactivate(a)
    \/ Submission
    \/ \E id \in DOMAIN posts : Cancel(id)
    \/ Execution
    \/ \E t \in Threads, id \in 1 .. Len(posts) + 1 : Invoke(t, id)
    \/ Tick

Spec == Init /\ [][Next]_vars

(***************************************************************************)
(* The same system started from a database the program has built before:   *)
(* one simulation account with n posts published earlier the same UTC day. *)
(***************************************************************************)
SeedCounts == {DailyLimit - 1, DailyLimit}

SeedTime == StartClock - HOUR

SeedPost ==
    [PostRow(1, "feed", <<UrlLocal>>, "none", SeedTime, SeedTime) EXCEPT
        !.status = "posted", !.actual_post_time = SeedTime,
        !.instagram_post_id = SyntheticId("post", IgSim, SeedTime)]

SeedAudit == [NoAudit EXCEPT !.composites = 1]

InitBusy ==
    /\ \E n \in SeedCounts :
        /\ posts = [i \in 1 .. n |-> SeedPost]
        /\ audit = [i \in 1 .. n |-> SeedAudit]
    /\ accounts = <<AccountRow(UserSim, IgSim, TokSim, FALSE)>>
    /\ schedules = <<DefaultSchedule(1)>>
    /\ jobs = {}
    /\ thr = [t \in Threads |-> IdleThread]
    /\ clock = StartClock
    /\ arg = None
    /\ res = None

NextBusy ==
    \/ Submission
    \/ \E id \in DOMAIN posts : Cancel(id)
    \/ Execution
    \/ Tick

SpecBusy == InitBusy /\ [][NextBusy]_vars


(***************************************************************************)
(* Registration followed by the program's own submissions and executions   *)
(***************************************************************************)
InitReg ==
    /\ accounts = <<>>
    /\ schedules = <<>>
    /\ posts = <<>>
    /\ audit = <<>>
    /\ jobs = {}
    /\ thr = [t \in Threads |-> IdleThread]
    /\ clock = StartClock
    /\ arg = None
    /\ res = None

NextReg ==
    \/ Registration
    \/ Submission
    \/ Execution
    \/ Tick

SpecReg == InitReg /\ [][NextReg]_vars


(***************************************************************************)
(* The operations of InstagramAPI called one at a time: arg is the call,   *)
(* res what it returned.                                                   *)
(***************************************************************************)
Quiet ==
    /\ accounts = <<>>
    /\ schedules = <<>>
    /\ posts = <<>>
    /\ audit = <<>>
    /\ jobs = {}
    /\ thr = [t \in Threads |-> IdleThread]
    /\ clock = StartClock

\* access_token as passed by the caller (None: not passed) and
\* Config.INSTAGRAM_ACCESS_TOKEN (None: not configured)
ApiTokens == {None, TokSim, TokReal}

ApiUrls == {UrlEmpty, UrlFile, UrlLocal, UrlLoop, UrlPublic, UrlPublic2}

ApiCall(op, access_token, default_token, image_urls, story_elements, rs, bj) ==
    [op |-> op, access_token |-> access_token, default_token |-> default_token,
     image_urls |-> image_urls, story_elements |-> story_elements, rs |-> rs, bj |-> bj]

\* carousels of n images: two URLs in turn, equal or different
CarouselInputs(n) ==
    { [i \in 1 .. n |-> IF i % 2 = 1 THEN u ELSE v] : u \in ApiUrls, v \in ApiUrls }

\* the scripts for an operation that retries: room for the retries of one
\* request, and the script in which one request fails MAX_RETRIES times
RetryScripts(n) ==
    ShortScripts(n + MAX_RETRIES - 1)
    \cup { [k \in 1 .. n + MAX_RETRIES - 1 |->
               Response(IF k \in j .. j + MAX_RETRIES - 1 THEN a ELSE "id", k)] :
           j \in 1 .. n, a \in {"error", ACCEPTED} }

\* the calls of the class: every operation with the tokens tok and def, every
\* URL and every course of the network
ApiCalls(tok, def, bj) ==
    { ApiCall("upload_media", tok, def, <<url>>, "none", rs, bj) :
        url \in ApiUrls, rs \in ShortScripts(2) }
    \cup { ApiCall("publish_media", tok, def, <<>>, "none", rs, bj) :
        rs \in ShortScripts(1) }
    \cup { ApiCall("post_to_instagram", tok, def, <<url>>, "none", rs, bj) :
        url \in ApiUrls, rs \in ShortScripts(3) }
    \cup { ApiCall("post_story", tok, def, <<url>>, el, rs, bj) :
        url \in ApiUrls, el \in StoryElements, rs \in ShortScripts(2) }
    \cup UNION { { ApiCall("post_carousel", tok, def, urls, "none", rs, bj) :
        urls \in CarouselInputs(n), rs \in ShortScripts(n + 2) } : n \in 1 .. MaxCarousel }
    \cup { ApiCall("collect_post_metrics", tok, def, <<>>, pt, rs, bj) :
        pt \in PostTypes, rs \in ShortScripts(1) }

\* the runs of the stand-alone scripts with the token tok
ScriptCalls(tok) ==
    UNION { { ApiCall("carousel_post", tok, None, urls, "none", rs, TRUE) :
        urls \in CarouselInputs(n), rs \in RetryScripts(n + 2) } : n \in 1 .. MaxCarousel }
    \cup { ApiCall("story_post", tok, None, <<url>>, "none", rs, TRUE) :
        url \in ApiUrls, rs \in RetryScripts(2) }

Pending(op) == arg # None /\ res = None /\ arg.op = op

UploadCall ==
    /\ Pending("upload_media")
    /\ res' = upload_media(IgReal, arg.image_urls[1], "caption", arg.access_token,
                           arg.default_token, arg.rs, arg.bj)
    /\ UNCHANGED <<sysvars, arg>>

PublishCall ==
    /\ Pending("publish_media")
    /\ res' = publish_media(IgReal, FreshId(0), arg.access_token, arg.default_token,
                            arg.rs, arg.bj)
    /\ UNCHANGED <<sysvars, arg>>

FeedCall ==
    /\ Pending("post_to_instagram")
    /\ res' = post_to_instagram(IgReal, arg.image_urls[1], "caption", arg.access_token,
                                arg.default_token, arg.rs, arg.bj, clock)
    /\ UNCHANGED <<sysvars, arg>>

StoryCall ==
    /\ Pending("post_story")
    /\ res' = post_story(IgReal, arg.image_urls[1], arg.story_elements, arg.access_token,
                         arg.default_token, arg.rs, arg.bj, clock)
    /\ UNCHANGED <<sysvars, arg>>

CarouselCall ==
    /\ Pending("post_carousel")
    /\ res' = post_carousel(IgReal, arg.image_urls, "caption", arg.access_token,
                            arg.default_token, arg.rs, arg.bj, clock)
    /\ UNCHANGED <<sysvars, arg>>

\* python carousel_post.py <image_url_1> <image_url_2> ...
ScriptCall ==
    /\ Pending("carousel_post")
    /\ res' = carousel_post_main(arg.image_urls, IgReal, arg.access_token, arg.rs)
    /\ UNCHANGED <<sysvars, arg>>

MetricsCall ==
    /\ Pending("collect_post_metrics")
    /\ res' = collect_post_metrics(FreshId(0), arg.story_elements, arg.access_token,
                                   arg.default_token, arg.rs, arg.bj)
    /\ UNCHANGED <<sysvars, arg>>

InitApi ==
    /\ Quiet
    /\ \/ \E tok \in ApiTokens, def \in ApiTokens, bj \in BadJsonRaises :
            arg \in ApiCalls(tok, def, bj)
       \/ arg \in ScriptCalls(TokReal)
    /\ res = None

\* python story_post.py <public_image_url>
StoryScriptCall ==
    /\ Pending("story_post")
    /\ res' = story_post_main(arg.image_urls[1], IgReal, arg.access_token, arg.rs)
    /\ UNCHANGED <<sysvars, arg>>

NextApi ==
    \/ UploadCall
    \/ PublishCall
    \/ FeedCall
    \/ StoryCall
    \/ CarouselCall
    \/ ScriptCall
    \/ StoryScriptCall
    \/ MetricsCall

SpecApi == InitApi /\ [][NextApi]_vars

(***************************************************************************)
(* queue_next_available_time called on tables of posts                     *)
(***************************************************************************)
\* live posts of account 1 on the day of utcnow (at both ends of the day),
\* then cancelled ones, posts of account 2, and posts of the days around
QueuePosts(live, cancelled, other_account, other_day, utcnow) ==
    LET today == Date(utcnow)
        row(a, t, st) == [PostRow(a, "feed", <<UrlLocal>>, "none", t, t) EXCEPT !.status = st]
    IN  [i \in 1 .. live |->
            row(1, IF i % 2 = 1 THEN Combine(today, 0) ELSE Combine(today, DAY - 1),
                IF i % 3 = 0 THEN "posted" ELSE IF i % 3 = 1 THEN "scheduled" ELSE "failed")]
        \o [i \in 1 .. cancelled |-> row(1, utcnow, "cancelled")]
        \o [i \in 1 .. other_account |-> row(2, utcnow, "scheduled")]
        \o [i \in 1 .. other_day |->
               row(1, IF i % 2 = 1 THEN Combine(today, 0) - 1 ELSE Combine(today + 1, 0),
                   "scheduled")]

QueueNows == {Combine(Date(StartClock), 0), StartClock, Combine(Date(StartClock), DAY - 1)}

\* posting_schedule: the default row, no row, a row whose first slot is
\* 06:00 UTC without jitter
QueueSchedules ==
    { <<DefaultSchedule(1)>>, <<>>,
      <<[DefaultSchedule(1) EXCEPT !.time_slot_1 = 6 * HOUR + IST_OFFSET,
                                   !.variance_minutes = 0]>> }

QueueArgs ==
    UNION {
      [live : {0, DailyLimit - 1, DailyLimit, DailyLimit + 1}, cancelled : {0, 2},
       other_account : {0, DailyLimit}, other_day : {0, DailyLimit},
       utcnow : QueueNows, scheds : {scheds},
       random_offset : IF scheds = <<>> THEN {0}
                       ELSE {0 - scheds[1].variance_minutes * 60,
                             scheds[1].variance_minutes * 60}]
      : scheds \in QueueSchedules }

QueueCall ==
    /\ arg # None
    /\ res = NoTime
    /\ res' = queue_next_available_time(
                  QueuePosts(arg.live, arg.cancelled, arg.other_account, arg.other_day,
                             arg.utcnow),
                  arg.scheds, 1, arg.utcnow, arg.random_offset)
    /\ UNCHANGED <<sysvars, arg>>

InitQueue == Quiet /\ arg \in QueueArgs /\ res = NoTime

SpecQueue == InitQueue /\ [][QueueCall]_vars

(***************************************************************************)
(* get_next_available_slot called around the slots of a schedule           *)
(***************************************************************************)
SlotSchedules ==
    { DefaultSchedule(1),
      [DefaultSchedule(1) EXCEPT !.time_slot_1 = 6 * HOUR, !.time_slot_2 = 18 * HOUR,
                                 !.variance_minutes = 1],
      [DefaultSchedule(1) EXCEPT !.time_slot_1 = 22 * HOUR, !.time_slot_2 = 13 * HOUR,
                                 !.variance_minutes = 0],
      [DefaultSchedule(1) EXCEPT !.time_slot_1 = 5 * 60, !.time_slot_2 = 12 * HOUR],
      [DefaultSchedule(1) EXCEPT !.time_slot_1 = DAY - 5 * 60, !.time_slot_2 = 12 * HOUR] }

\* local times of day around the two slots and at the ends of the day
SlotTimes(schedule) ==
    {0, DAY - 1} \cup
    {s + d : s \in {schedule.time_slot_1, schedule.time_slot_2}, d \in {0 - 1, 0, 1}}

SlotArgs ==
    UNION {
      [schedule : {schedule},
       local_now : {Combine(Date(StartClock), tod) : tod \in SlotTimes(schedule)},
       random_offset : JitterOffsets(schedule.variance_minutes)]
      : schedule \in SlotSchedules }

SlotCall ==
    /\ arg # None
    /\ res = NoTime
    /\ res' = get_next_available_slot(<<arg.schedule>>, 1, ToUTC(arg.local_now),
                                      arg.random_offset)
    /\ UNCHANGED <<sysvars, arg>>

InitSlot == Quiet /\ arg \in SlotArgs /\ res = NoTime

SpecSlot == InitSlot /\ [][SlotCall]_vars


(***************************************************************************)
(* The executor over a database it did not fill itself: one scheduled post  *)
(* whose account row may be missing and whose media_urls may be empty (the  *)
(* column is nullable, no foreign key is enforced), with its job registered.*)
(* arg holds whether the database operations of the moment fail.           *)
(***************************************************************************)
ExecSeeds ==
    { PostRow(a, pt, urls, "none", StartClock, StartClock - HOUR) :
        a \in {1, 2}, pt \in PostTypes, urls \in {<<>>, <<UrlPublic>>} }

DbWeathers == [dbfault : BOOLEAN, commitfault : BOOLEAN]

InitExec ==
    /\ \E account \in InitialAccounts : accounts = <<account>>
    /\ \E seed \in ExecSeeds :
          /\ posts = <<seed>>
          /\ jobs = {[id |-> 1, run_date |-> seed.scheduled_time]}
    /\ schedules = <<DefaultSchedule(1)>>
    /\ audit = <<NoAudit>>
    /\ thr = [t \in Threads |-> IdleThread]
    /\ clock = StartClock
    /\ arg = [dbfault |-> FALSE, commitfault |-> FALSE]
    /\ res = None

\* the database starts or stops failing
DbWeather ==
    /\ \E w \in DbWeathers \ {arg} : arg' = w
    /\ UNCHANGED <<sysvars, res>>

ExecutionExec ==
    \/ \E j \in jobs : JobFire("worker", j)
    \/ \E t \in Threads : ExecLoad(t)
    \/ \E t \in Threads :
         /\ thr[t].pc = "run"
         /\ \E result \in PossibleResults(posts[thr[t].id], accounts, clock) :
              ExecRun(t, result, arg.dbfault, arg.commitfault)

NextExec ==
    \/ \E a \in DOMAIN accounts : Deactivate(a)
    \/ DbWeather
    \/ ExecutionExec
    \/ \E t \in Threads, id \in 1 .. Len(posts) + 1 : Invoke(t, id)
    \/ Tick

SpecExec == InitExec /\ [][NextExec]_vars

(***************************************************************************)
(* The executor with the assignment of updated_at (line 1008) and the      *)
(* commit (line 1009) as two steps: res holds, for each thread, the        *)
(* attributes its session has assigned and not yet committed. The early    *)
(* exits commit where they are, updated_at stamped by onupdate.            *)
(***************************************************************************)
StampSeeds ==
    { PostRow(a, "feed", urls, "none", StartClock, StartClock - HOUR) :
        a \in {1, 2}, urls \in {<<>>, <<UrlPublic>>} }

InitStamp ==
    /\ \E account \in InitialAccounts : accounts = <<account>>
    /\ \E seed \in StampSeeds :
          /\ posts = <<seed>>
          /\ jobs = {[id |-> 1, run_date |-> seed.scheduled_time]}
    /\ schedules = <<DefaultSchedule(1)>>
    /\ audit = <<NoAudit>>
    /\ thr = [t \in Threads |-> IdleThread]
    /\ clock = StartClock
    /\ arg = [dbfault |-> FALSE, commitfault |-> FALSE]
    /\ res = [t \in Threads |-> None]

\* the try block up to post.updated_at = datetime.utcnow()
ExecTry(t, result, dbfault, commitfault) ==
    /\ thr[t].pc = "run"
    /\ LET id == thr[t].id
           post == posts[id]
           dirty == ExecDirty(post, accounts, result, dbfault, clock)
       IN  IF Dispatches(post, accounts, dbfault) \/ dbfault
           THEN /\ res' = [res EXCEPT ![t] = dirty @@ [updated_at |-> clock]]
                /\ thr' = [thr EXCEPT ![t].pc = "commit"]
                /\ audit' = IF Dispatches(post, accounts, dbfault)
                            THEN [audit EXCEPT ![id].composites = IF @ < 2 THEN @ + 1 ELSE @,
                                               ![id].outbound = @ \/ result.trace # <<>>]
                            ELSE audit
                /\ UNCHANGED posts
           ELSE /\ posts' = IF commitfault THEN posts
                            ELSE [posts EXCEPT ![id] = Flush(@, dirty, clock)]
                /\ thr' = [thr EXCEPT ![t] = IdleThread]
                /\ UNCHANGED <<audit, res>>
    /\ UNCHANGED <<accounts, schedules, jobs, clock, arg>>

\* db.session.commit(): UPDATE posts SET <assigned attributes> WHERE id = ...
ExecCommit(t, commitfault) ==
    /\ thr[t].pc = "commit"
    /\ posts' = IF commitfault THEN posts
                ELSE [posts EXCEPT ![thr[t].id] = Flush(@, res[t], res[t].updated_at)]
    /\ res' = [res EXCEPT ![t] = None]
    /\ thr' = [thr EXCEPT ![t] = IdleThread]
    /\ UNCHANGED <<accounts, schedules, jobs, clock, audit, arg>>

ExecutionStamp ==
    \/ \E j \in jobs : JobFire("worker", j)
    \/ \E t \in Threads : ExecLoad(t)
    \/ \E t \in Threads :
         /\ thr[t].pc = "run"
         /\ \E result \in PossibleResults(posts[thr[t].id], accounts, clock) :
              ExecTry(t, result, arg.dbfault, arg.commitfault)
    \/ \E t \in Threads : ExecCommit(t, arg.commitfault)

NextStamp ==
    \/ \E a \in DOMAIN accounts : Deactivate(a)
    \/ DbWeather
    \/ ExecutionStamp
    \/ \E t \in Threads, id \in DOMAIN posts : Invoke(t, id)
    \/ Tick

SpecStamp == InitStamp /\ [][NextStamp]_vars

(***************************************************************************)
(* The executor against a platform that never answers one request of the   *)
(* publish sequence: arg.silent is the position of that request (0: every  *)
(* request is answered). A request made with a timeout raises              *)
(* requests.exceptions.Timeout, a RequestException; one made without waits *)
(* for ever.                                                               *)
(***************************************************************************)
\* the timeout argument of the request (NoTime: none given)
RequestTimeout(post_type, req) ==
    IF req.kind = "head" THEN (IF MentionsLocalhost(req.target) THEN 5 ELSE 10)
    ELSE IF req.kind = "media" /\ post_type = "feed" THEN 30
    ELSE NoTime

HangSeeds ==
    { PostRow(1, pt, [i \in 1 .. n |-> url], "none", StartClock, StartClock - HOUR) :
        pt \in PostTypes, n \in 1 .. MaxImages, url \in {UrlPublic, UrlLocal} }

InitHang ==
    /\ \E account \in InitialAccounts : accounts = <<account>>
    /\ \E seed \in HangSeeds :
          /\ posts = <<seed>>
          /\ jobs = {[id |-> 1, run_date |-> seed.scheduled_time]}
    /\ schedules = <<DefaultSchedule(1)>>
    /\ audit = <<NoAudit>>
    /\ thr = [t \in Threads |-> IdleThread]
    /\ clock = StartClock
    /\ \E j \in 0 .. MaxImages + 2 : arg = [silent |-> j]
    /\ res = None

\* the requests the publisher issues for the post while each is answered
HangRequests(post) ==
    LET account == accounts[post.account_id]
        n == NeededResponses(post, account)
    IN  Dispatch(post, account, [k \in 1 .. n |-> Response("id", k)], FALSE, clock).trace

\* the request the platform does not answer is one the publisher issues
Unanswered(post) == arg.silent \in DOMAIN HangRequests(post)

\* the run of an invocation that comes back from every request it makes
HangRun(t) ==
    /\ thr[t].pc = "run"
    /\ LET post == posts[thr[t].id]
           account == accounts[post.account_id]
           rs == [k \in 1 .. NeededResponses(post, account) |->
                     Response(IF k = arg.silent THEN "neterr" ELSE "id", k)]
       IN  /\ Unanswered(post)
                => RequestTimeout(post.post_type, HangRequests(post)[arg.silent]) # NoTime
           /\ ExecRun(t, Dispatch(post, account, rs, FALSE, clock), FALSE, FALSE)

NextHang ==
    \/ \E j \in jobs : JobFire("worker", j)
    \/ \E t \in Threads : ExecLoad(t)
    \/ \E t \in Threads : HangRun(t)

\* a pool thread that can take a step of its job takes it
SpecHang == InitHang /\ [][NextHang]_vars /\ WF_vars(NextHang)

(***************************************************************************)
(* Hashtags appended to a caption: arg is the repository and the caption,  *)
(* res the tags drawn and the caption stored.                              *)
(***************************************************************************)
\* rows of hashtag_repository
MaxTags == 22

\* get_random_hashtags(20)
HashtagCount == 20

\* the sets obtained by removing k elements from S
RECURSIVE Without(_, _)
Without(S, k) ==
    IF k = 0 THEN {S}
    ELSE UNION { Without(S \ {x}, k - 1) : x \in S }

\* random.sample(population, k): k positions, none twice (the order in
\* which they come out is that of the population here)
sample(population, k) ==
    { [i \in 1 .. k |->
         population[CHOOSE p \in keep : Cardinality({q \in keep : q < p}) = i - 1]] :
      keep \in Without(DOMAIN population, Len(population) - k) }

\* rows selected by a predicate, in the order of the table
RECURSIVE filter_by(_, _)
filter_by(rows, is_active) ==
    IF rows = <<>> THEN <<>>
    ELSE IF rows[1].is_active = is_active
         THEN <<rows[1]>> \o filter_by(Tail(rows), is_active)
         ELSE filter_by(Tail(rows), is_active)

\* a selection that does not look at is_active
get_random_hashtags_all_rows(repository, count) ==
    LET hashtags == repository
    IN  IF Len(hashtags) <= count
        THEN {[i \in DOMAIN hashtags |-> hashtags[i].hashtag]}
        ELSE { [i \in DOMAIN picked |-> picked[i].hashtag] : picked \in sample(hashtags, count) }

\* the lists get_random_hashtags can return
get_random_hashtags(repository, count) ==
    LET hashtags == filter_by(repository, TRUE)
    IN  IF Len(hashtags) <= count
        THEN {[i \in DOMAIN hashtags |-> hashtags[i].hashtag]}
        ELSE { [i \in DOMAIN picked |-> picked[i].hashtag] : picked \in sample(hashtags, count) }

\* caption += '\n\n' + ' '.join(f'#{tag}' for tag in hashtags)
AddHashtags(caption, hashtags) ==
    IF hashtags = <<>> THEN caption
    ELSE caption \o <<"\n\n">> \o [i \in DOMAIN hashtags |-> <<"#", hashtags[i]>>]

\* hashtag is unique: row i holds tag i; the rows of `off' are inactive
Repository(n, off) == [i \in 1 .. n |-> [hashtag |-> i, is_active |-> i \notin off]]

InitHashtags ==
    /\ \E n \in 0 .. MaxTags : \E off \in SUBSET ({1, 2, n} \cap (1 .. n)) :
         arg = [repository |-> Repository(n, off), caption |-> <<"text">>]
    /\ res = None
    /\ accounts = <<>>
    /\ schedules = <<>>
    /\ posts = <<>>
    /\ audit = <<>>
    /\ jobs = {}
    /\ thr = [t \in Threads |-> IdleThread]
    /\ clock = StartClock

HashtagCall ==
    /\ res = None
    /\ \E hashtags \in get_random_hashtags(arg.repository, HashtagCount) :
         res' = [hashtags |-> hashtags, caption |-> AddHashtags(arg.caption, hashtags)]
    /\ UNCHANGED <<sysvars, arg>>

SpecHashtags == InitHashtags /\ [][HashtagCall]_vars

(***************************************************************************)
(* process_caption_template: a text is a sequence of words, a variable in  *)
(* braces being one word.  arg is the call, res the caption returned.      *)
(***************************************************************************)
\* a replacement that stops after the first occurrence
RECURSIVE replace_first(_, _, _)
replace_first(s, old, new) ==
    IF s = <<>> THEN <<>>
    ELSE IF s[1] = old THEN new \o Tail(s)
         ELSE <<s[1]>> \o replace_first(Tail(s), old, new)

\* str.replace(old, new)
RECURSIVE replace(_, _, _)
replace(s, old, new) ==
    IF s = <<>> THEN <<>>
    ELSE IF s[1] = old THEN new \o replace(Tail(s), old, new)
         ELSE <<s[1]>> \o replace(Tail(s), old, new)

\* datetime.now(pytz.timezone('Asia/Kolkata')).hour
LocalHour(utcnow) == TimeOfDay(utcnow + IST_OFFSET) \div HOUR

time_period(hour) ==
    IF 5 <= hour /\ hour < 12 THEN "morning"
    ELSE IF 12 <= hour /\ hour < 17 THEN "afternoon"
    ELSE IF 17 <= hour /\ hour < 21 THEN "evening"
    ELSE "night"

\* now.strftime(...): the formatted values stand for themselves
process_caption_template(template, custom_text, account_name, utcnow) ==
    LET p1 == replace(template, "{account_name}", account_name)
        p2 == replace(p1, "{date}", <<"%B %d, %Y">>)
        p3 == replace(p2, "{time}", <<"%I:%M %p">>)
        p4 == replace(p3, "{day_of_week}", <<"%A">>)
        p5 == replace(p4, "{time_period}", <<time_period(LocalHour(utcnow))>>)
    IN  replace(p5, "{custom_text}", custom_text)

CaptionTemplates ==
    { <<"{account_name}", "says", "hi", "at", "{time_period}">>,
      <<"{account_name}", "{account_name}", "{custom_text}", "{account_name}">>,
      <<"{time_period}", "{date}", "{time}", "{day_of_week}", "{time_period}">>,
      <<"hi">>,
      <<>> }

AccountNames == { <<"acme">>, <<"shop", ".", "in">> }

CustomTexts == { <<>>, <<"by", "{account_name}">> }

\* the instants of a day at which the local hour, half an hour off the
\* UTC hour, begins, ends and is under way
CaptionClocks ==
    { StartClock + h * HOUR + m : h \in 0 .. 23, m \in {0, 1799, 1800, 3599} }

\* the concatenation of a sequence of texts
RECURSIVE Joined(_)
Joined(texts) ==
    IF texts = <<>> THEN <<>> ELSE texts[1] \o Joined(Tail(texts))

InitCaption ==
    /\ \E template \in CaptionTemplates, custom_text \in CustomTexts,
          account_name \in AccountNames, utcnow \in CaptionClocks :
         arg = [template |-> template, custom_text |-> custom_text,
                account_name |-> account_name, utcnow |-> utcnow]
    /\ res = None
    /\ accounts = <<>>
    /\ schedules = <<>>
    /\ posts = <<>>
    /\ audit = <<>>
    /\ jobs = {}
    /\ thr = [t \in Threads |-> IdleThread]
    /\ clock = StartClock

CaptionCall ==
    /\ res = None
    /\ res' = [caption |-> process_caption_template(arg.template, arg.custom_text,
                                                    arg.account_name, arg.utcnow)]
    /\ UNCHANGED <<sysvars, arg>>

SpecCaption == InitCaption /\ [][CaptionCall]_vars

(***************************************************************************)
(* Schedules with the timezone column set: arg is the account's schedule   *)
(* and the instant, res the time period of its caption and its next slot.  *)
(***************************************************************************)
\* PostingSchedule.timezone: the zones configured, with their offsets from
\* UTC in January
Timezones == {"Asia/Kolkata", "UTC", "America/New_York"}

UtcOffset(timezone) ==
    IF timezone = "Asia/Kolkata" THEN IST_OFFSET
    ELSE IF timezone = "UTC" THEN 0
    ELSE 0 - 5 * HOUR

ZoneSchedule(timezone) == DefaultSchedule(1) @@ [timezone |-> timezone]

InitZone ==
    /\ \E timezone \in Timezones, utcnow \in CaptionClocks :
         arg = [scheds |-> <<ZoneSchedule(timezone)>>, utcnow |-> utcnow]
    /\ res = None
    /\ accounts = <<>>
    /\ schedules = <<>>
    /\ posts = <<>>
    /\ audit = <<>>
    /\ jobs = {}
    /\ thr = [t \in Threads |-> IdleThread]
    /\ clock = StartClock

ZoneCall ==
    /\ res = None
    /\ res' = [time_period |-> process_caption_template(<<"{time_period}">>, <<>>,
                                                         <<"acme">>, arg.utcnow)[1],
               next_slot |-> get_next_available_slot(arg.scheds, 1, arg.utcnow, 0),
               auto_story |-> get_next_story_slot(1, arg.utcnow)]
    /\ UNCHANGED <<sysvars, arg>>

SpecZone == InitZone /\ [][ZoneCall]_vars

(***************************************************************************)
(* One retrying step of the stand-alone scripts against every course of    *)
(* answers: arg is the script of answers, res what the step returned.      *)
(***************************************************************************)
RetryAnswers == Answers \cup {ACCEPTED}

InitRetry ==
    /\ \E answers \in [1 .. MAX_RETRIES -> RetryAnswers] :
         arg = [rs |-> [k \in 1 .. MAX_RETRIES |-> Response(answers[k], k)]]
    /\ res = None
    /\ accounts = <<>>
    /\ schedules = <<>>
    /\ posts = <<>>
    /\ audit = <<>>
    /\ jobs = {}
    /\ thr = [t \in Threads |-> IdleThread]
    /\ clock = StartClock

RetryCall ==
    /\ res = None
    /\ res' = RetryStep(ChildReq(IgReal, UrlPublic, TokReal), arg.rs, 1, <<>>, <<>>)
    /\ UNCHANGED <<sysvars, arg>>

SpecRetry == InitRetry /\ [][RetryCall]_vars

(***************************************************************************)
(* sort_files_by_order: a file is an object with a filename (uid tells two *)
(* objects of the same filename apart); arg is the call, res the list      *)
(* returned.                                                               *)
(***************************************************************************)
\* files in the request
MaxFiles == 3

\* entries of the order array
MaxOrder == 3

\* {f.filename: f for f in files}: of two files of one name the later stays
file_dict(files) ==
    [name \in {files[i].filename : i \in DOMAIN files} |->
        files[CHOOSE i \in DOMAIN files :
                 /\ files[i].filename = name
                 /\ \A j \in DOMAIN files : files[j].filename = name => j <= i]]

\* for filename in file_order: if filename in file_dict: append
RECURSIVE Ordered(_, _)
Ordered(dict, file_order) ==
    IF file_order = <<>> THEN <<>>
    ELSE IF file_order[1] \in DOMAIN dict
         THEN <<dict[file_order[1]]>> \o Ordered(dict, Tail(file_order))
         ELSE Ordered(dict, Tail(file_order))

\* for file in files: if file not in sorted_files: append
RECURSIVE Remaining(_, _)
Remaining(files, sorted_files) ==
    IF files = <<>> THEN sorted_files
    ELSE IF \E i \in DOMAIN sorted_files : sorted_files[i] = files[1]
         THEN Remaining(Tail(files), sorted_files)
         ELSE Remaining(Tail(files), Append(sorted_files, files[1]))

sort_files_by_order(files, file_order) ==
    Remaining(files, Ordered(file_dict(files), file_order))

UploadedFiles ==
    UNION { { [i \in 1 .. n |-> [filename |-> names[i], uid |-> i]] :
              names \in [1 .. n -> {"a.jpg", "b.jpg"}] } : n \in 0 .. MaxFiles }

\* order arrays from the frontend: names of the files and a name unknown
FileOrders ==
    UNION { [1 .. n -> {"a.jpg", "b.jpg", "z.jpg"}] : n \in 0 .. MaxOrder }

InitOrder ==
    /\ \E files \in UploadedFiles, file_order \in FileOrders :
         arg = [files |-> files, file_order |-> file_order]
    /\ res = None
    /\ accounts = <<>>
    /\ schedules = <<>>
    /\ posts = <<>>
    /\ audit = <<>>
    /\ jobs = {}
    /\ thr = [t \in Threads |-> IdleThread]
    /\ clock = StartClock

OrderCall ==
    /\ res = None
    /\ res' = [files |-> sort_files_by_order(arg.files, arg.file_order)]
    /\ UNCHANGED <<sysvars, arg>>

SpecOrder == InitOrder /\ [][OrderCall]_vars

(***************************************************************************)
(* The system with carousels of no file, of few files, of the largest     *)
(* number of files accepted and of one more.                               *)
(***************************************************************************)
FileCounts(a) ==
    IF StartsWith(accounts[a].access_token, TEST)
    THEN {0, 1, MaxCarouselFiles, MaxCarouselFiles + 1}
    ELSE 0 .. MaxImages

CarouselSubmission ==
    /\ \E a \in DOMAIN accounts : \E n \in FileCounts(a) : SubmissionOf(a, "carousel", n)
    /\ UNCHANGED arg

NextFiles ==
    \/ CarouselSubmission
    \/ Submission
    \/ Execution
    \/ \E t \in Threads, id \in DOMAIN posts : Invoke(t, id)
    \/ Tick

SpecFiles == Init /\ [][NextFiles]_vars

(***************************************************************************)
(* Submissions whose files the storage backends may not resolve: arg is    *)
(* the request handled last.                                               *)
(***************************************************************************)
InitUrl ==
    /\ \E account \in InitialAccounts \cup {AccountRow(UserSim, IgReal, TokReal, FALSE)} :
         accounts = <<account>>
    /\ schedules = <<DefaultSchedule(1)>>
    /\ posts = <<>>
    /\ audit = <<>>
    /\ jobs = {}
    /\ thr = [t \in Threads |-> IdleThread]
    /\ clock = StartClock
    /\ arg = None
    /\ res = None

UrlSubmission ==
    \E pt \in PostTypes, st \in ScheduleTypes, n \in 1 .. MaxImages :
      \E pr \in [1 .. n -> Providers] :
        /\ Submit("web", "upload", 1, pt, st, n, "none", pr, 0)
        /\ arg' = [post_type |-> pt, schedule_type |-> st, files |-> n, providers |-> pr]

SpecUrl == InitUrl /\ [][UrlSubmission]_vars

(***************************************************************************)
(* Sequences of add_account requests: arg is the request handled last.     *)
(***************************************************************************)
\* accounts stored in one run
MaxRegistered == 3

AccountForms ==
    RegistrationForms \cup { <<UserShop, IgReal2, TokReal>>, <<UserTester, IgReal2, TokReal>>,
                             <<UserSim, IgSim, TokReal>> }

InitAccounts ==
    /\ accounts = <<>>
    /\ schedules = <<>>
    /\ posts = <<>>
    /\ audit = <<>>
    /\ jobs = {}
    /\ thr = [t \in Threads |-> IdleThread]
    /\ clock = StartClock
    /\ arg = None
    /\ res = None

AccountRequest ==
    /\ Len(accounts) < MaxRegistered
    /\ \E f \in AccountForms :
         \E answer \in PlatformAnswers(f[1], f[2]) :
            /\ add_account(f[1], f[2], f[3], answer)
            /\ arg' = [username |-> f[1], instagram_id |-> f[2], access_token |-> f[3],
                       answer |-> answer]
    /\ UNCHANGED <<posts, jobs, thr, clock, audit, res>>

SpecAccounts == InitAccounts /\ [][AccountRequest]_vars

(***************************************************************************)
(* Story submissions in queue mode handled by concurrent request threads:  *)
(* the computation of scheduled_time (which reads the daily count) and the *)
(* commit of the Post row are two steps. res holds, for each thread, the   *)
(* scheduled_time its request has computed and the count it has read.      *)
(***************************************************************************)
\* submissions handled in one run
MaxQueued == 3

RaceCounts == {DailyLimit - 2, DailyLimit - 1, DailyLimit}

InitRace ==
    /\ \E n \in RaceCounts :
        /\ posts = [i \in 1 .. n |-> SeedPost]
        /\ audit = [i \in 1 .. n |-> SeedAudit]
    /\ accounts = <<AccountRow(UserSim, IgSim, TokSim, FALSE)>>
    /\ schedules = <<DefaultSchedule(1)>>
    /\ jobs = {}
    /\ thr = [t \in Threads |-> IdleThread]
    /\ clock = StartClock
    /\ arg = None
    /\ res = [t \in Threads |-> None]

\* the requests being handled
InFlight == {t \in Threads : res[t] # None}

\* upload() / api_post() up to calculate_story_schedule_time
QueueRead(t, route, off) ==
    /\ res[t] = None
    /\ NewPosts(posts) + Cardinality(InFlight) < MaxQueued
    /\ res' = [res EXCEPT ![t] =
                  [scheduled_time |-> HandlerScheduledTime(posts, schedules, route, "story",
                                                           "queue", 1, clock, off),
                   count |-> get_daily_post_count(posts, 1, Date(clock))]]
    /\ UNCHANGED <<sysvars, arg>>

\* a commit of the Post row that computes scheduled_time again
QueueStore_recheck(t) ==
    /\ res[t] # None
    /\ LET id == Len(posts) + 1
           scheduled_time == HandlerScheduledTime(posts, schedules, "upload", "story",
                                                  "queue", 1, clock, 0)
       IN  /\ posts' = Append(posts, PostRow(1, "story", <<UrlLocal>>, "none",
                                             scheduled_time, clock))
           /\ schedule_post_execution(t, id, scheduled_time, "queue")
    /\ res' = [res EXCEPT ![t] = None]
    /\ UNCHANGED <<accounts, schedules, clock, arg>>

\* Post(..., scheduled_time=scheduled_time), commit, schedule_post_execution
QueueStore(t) ==
    /\ res[t] # None
    /\ LET id == Len(posts) + 1
       IN  /\ posts' = Append(posts, PostRow(1, "story", <<UrlLocal>>, "none",
                                             res[t].scheduled_time, clock))
           /\ schedule_post_execution(t, id, res[t].scheduled_time, "queue")
    /\ res' = [res EXCEPT ![t] = None]
    /\ UNCHANGED <<accounts, schedules, clock, arg>>

NextRace ==
    \/ \E t \in Threads, route \in Routes, off \in SampledOffsets(1) : QueueRead(t, route, off)
    \/ \E t \in Threads : QueueStore(t)

SpecRace == InitRace /\ [][NextRace]_vars

(***************************************************************************)
(* get_next_story_slot called in every hour of the local day               *)
(***************************************************************************)
\* local instants: the start, the middle and the last second of every hour
StorySlotArgs ==
    [local_now : {Combine(Date(StartClock), h * HOUR + m) :
                     h \in 0 .. 23, m \in {0, HOUR \div 2, HOUR - 1}}]

StorySlotCall ==
    /\ arg # None
    /\ res = NoTime
    /\ res' = get_next_story_slot(1, ToUTC(arg.local_now))
    /\ UNCHANGED <<sysvars, arg>>

InitStorySlot == Quiet /\ arg \in StorySlotArgs /\ res = NoTime

SpecStorySlot == InitStorySlot /\ [][StorySlotCall]_vars

(***************************************************************************)
(* calculate_scheduled_time / calculate_story_schedule_time called for     *)
(* every kind of post and every scheduling mode                            *)
(***************************************************************************)
\* posting_schedule: no row, an inactive row, the default row
ModeSchedules ==
    { <<>>, <<[DefaultSchedule(1) EXCEPT !.is_active = FALSE]>>, <<DefaultSchedule(1)>> }

ModeArgs ==
    UNION {
      [post_type : PostTypes, schedule_type : ScheduleTypes,
       live : {0, DailyLimit - 1, DailyLimit}, utcnow : QueueNows, scheds : {scheds},
       random_offset : IF ActiveSchedule(scheds, 1) = None THEN {0}
                       ELSE {0 - scheds[1].variance_minutes * 60, 0,
                             scheds[1].variance_minutes * 60}]
      : scheds \in ModeSchedules }

\* handle_story_post uses calculate_story_schedule_time, the other handlers
\* calculate_scheduled_time
ModeCall ==
    /\ arg # None
    /\ res = NoTime
    /\ LET ps == QueuePosts(arg.live, 0, 0, 0, arg.utcnow)
       IN  res' = IF arg.post_type = "story"
                  THEN calculate_story_schedule_time(ps, arg.scheds, arg.schedule_type, 1,
                                                     arg.utcnow, arg.random_offset)
                  ELSE calculate_scheduled_time(ps, arg.scheds, arg.schedule_type, 1,
                                                arg.utcnow, arg.random_offset)
    /\ UNCHANGED <<sysvars, arg>>

InitMode == Quiet /\ arg \in ModeArgs /\ res = NoTime

SpecMode == InitMode /\ [][ModeCall]_vars

(***************************************************************************)
(* Properties                                                              *)
(***************************************************************************)
\* the step in which thread t leaves position pc
Leaves(t, pc) == thr[t].pc = pc /\ thr'[t].pc # pc

\* C1: an invocation of execute_scheduled_post on a post id that does not
\* exist, or whose status is not 'scheduled', is a no-op: its guard step
\* ends the invocation, no composite operation is dispatched and no field
\* of any post changes.
C1_GuardedInvocationIsNoOp ==
    [][\A t \in Threads :
         (/\ Leaves(t, "call")
          /\ \/ thr[t].id \notin DOMAIN posts
             \/ posts[thr[t].id].status # "scheduled")
         => /\ thr'[t] = IdleThread
            /\ posts' = posts
            /\ audit' = audit]_vars

\* C1: one thread is about to run the guard on a post that an earlier
\* invocation has published, another on an id that is not in the table
C1_Witness ==
    \E t1 \in Threads, t2 \in Threads :
        /\ thr[t1].pc = "call"
        /\ thr[t1].id \in DOMAIN posts
        /\ posts[thr[t1].id].status = "posted"
        /\ audit[thr[t1].id].composites = 1
        /\ thr[t2].pc = "call"
        /\ thr[t2].id \notin DOMAIN posts

\* C2: the status of a post that is posted or failed never changes again,
\* whatever submissions, job firings and executor invocations follow.
C2_TerminalStatusIsFinal ==
    [][\A id \in DOMAIN posts :
         posts[id].status \in {"posted", "failed"}
         => posts'[id].status = posts[id].status]_vars

\* C3: the step that ends an invocation which passed the guard leaves the
\* stored status of its post 'posted' or 'failed', never 'scheduled'.
C3_AttemptLeavesScheduled ==
    [][\A t \in Threads :
         Leaves(t, "run") => posts'[thr[t].id].status \in {"posted", "failed"}]_vars

\* C4: of the invocations of execute_scheduled_post on one post id, at most
\* one is past the status guard at any time.
C4_AtMostOnePastGuard ==
    \A t1 \in Threads, t2 \in Threads :
        (t1 # t2 /\ thr[t1].pc = "run" /\ thr[t2].pc = "run")
        => thr[t1].id # thr[t2].id

\* C5: an operation of InstagramAPI called with a credential that starts
\* with 'test' returns a synthetic success and issues no request, whatever
\* the media URL.
C5_SimulationIssuesNoRequest ==
    (arg # None /\ res # None /\ arg.access_token # None
        /\ StartsWith(arg.access_token, TEST))
    => (res.k \in {"id", "metrics"} /\ res.trace = <<>>)

\* C6: executing a post of an account that add_account stored without
\* validating it issues no request to the platform.
C6_UnvalidatedAccountIssuesNoRequest ==
    \A id \in DOMAIN posts :
        (posts[id].account_id \in DOMAIN accounts
            /\ ~accounts[posts[id].account_id].validated)
        => ~audit[id].outbound

C8_DailyCap ==
    \A a \in DOMAIN accounts, d \in Date(SeedTime) .. Date(StartClock) + MaxTicks + 2 :
        Cardinality({i \in DOMAIN posts :
                        /\ posts[i].account_id = a
                        /\ posts[i].status # "cancelled"
                        /\ posts[i].scheduled_time \div 86400 = d}) <= 25

\* C9: the program never calls execute_scheduled_post for a post, neither
\* synchronously nor by a job, before the post's stored scheduled_time.
C9_NeverBeforeScheduledTime ==
    \A id \in DOMAIN posts : audit[id].early = {}

\* C10: with an active schedule, get_next_available_slot returns (before the
\* conversion to UTC) a time within variance_minutes of slot 1 of today when
\* the local time is before slot 1, else of slot 2 of today when the local
\* time is before slot 2, else of slot 1 of tomorrow.
C10_NextSlot ==
    (arg # None /\ res # NoTime)
    => LET day == arg.local_now \div 86400
           tod == arg.local_now % 86400
           base == IF tod < arg.schedule.time_slot_1
                   THEN day * 86400 + arg.schedule.time_slot_1
                   ELSE IF tod < arg.schedule.time_slot_2
                        THEN day * 86400 + arg.schedule.time_slot_2
                        ELSE (day + 1) * 86400 + arg.schedule.time_slot_1
           returned == res + 19800
       IN  /\ returned - base <= arg.schedule.variance_minutes * 60
           /\ base - returned <= arg.schedule.variance_minutes * 60

\* C10: a call after both slots with the largest jitter has returned slot 1
\* of tomorrow plus the whole variance
C10_Witness ==
    /\ arg # None
    /\ res # NoTime
    /\ arg.schedule = DefaultSchedule(1)
    /\ TimeOfDay(arg.local_now) = 22 * HOUR
    /\ arg.random_offset = 900
    /\ res + IST_OFFSET = Combine(Date(arg.local_now) + 1, 13 * HOUR) + 900

\* C11: given a local time strictly before slot 1, get_next_available_slot
\* returns (before the conversion to UTC) a time within variance_minutes of
\* slot 1 and on the local calendar day of the current local time.
C11_BeforeSlot1SameDay ==
    (arg # None /\ res # NoTime
        /\ arg.local_now % 86400 < arg.schedule.time_slot_1)
    => LET day == arg.local_now \div 86400
           slot1 == day * 86400 + arg.schedule.time_slot_1
           returned == res + 19800
       IN  /\ returned - slot1 <= arg.schedule.variance_minutes * 60
           /\ slot1 - returned <= arg.schedule.variance_minutes * 60
           /\ returned \div 86400 = day

C13_NoScheduleMeansNow ==
    (arg # None /\ res # NoTime
        /\ arg.schedule_type \in {"next_slot", "auto_story", "queue"}
        /\ \A i \in DOMAIN arg.scheds : ~arg.scheds[i].is_active)
    => res = arg.utcnow

\* C14: in queue mode with fewer than 25 posts counted for the current UTC
\* day, the scheduled time of a post of any kind is one that next_slot computes
\* for the same account at the same instant, for some jitter offset.
C14_QueueUnderQuotaIsNextSlot ==
    (arg # None /\ res # NoTime /\ arg.schedule_type = "queue" /\ arg.live < 25)
    => LET variance == IF arg.scheds = <<>> THEN 0 ELSE arg.scheds[1].variance_minutes
       IN  \E off \in JitterOffsets(variance) :
              res = get_next_available_slot(arg.scheds, 1, arg.utcnow, off)

\* C15: a carousel of N image URLs for a credential that is not a simulation
\* one, in which every request is answered with an id, issues N child-container
\* requests in input order, then one parent-container request whose children
\* are the child ids in the order of the input URLs, then one publish request
\* carrying the parent's id, and nothing else (InstagramAPI.post_carousel and
\* the main of carousel_post.py).
C15_CarouselProtocolOrder ==
    (arg # None /\ res # None /\ arg.op \in {"post_carousel", "carousel_post"}
        /\ \A k \in DOMAIN arg.rs : arg.rs[k].body = "id")
    => LET N == Len(arg.image_urls)
           token == IF arg.access_token # None THEN arg.access_token
                    ELSE arg.default_token
           caption == IF arg.op = "post_carousel" THEN "caption"
                      ELSE "MBBS Quotes Carousel"
       IN  (token = None \/ ~StartsWith(token, TEST))
           => /\ res.k = "id"
              /\ Len(res.trace) = N + 2
              /\ \A i \in 1 .. N :
                    res.trace[i] =
                        [kind |-> "media", target |-> IgReal,
                         payload |-> [image_url |-> arg.image_urls[i],
                                      is_carousel_item |-> "true",
                                      access_token |-> token]]
              /\ res.trace[N + 1] =
                    [kind |-> "media", target |-> IgReal,
                     payload |-> [media_type |-> "CAROUSEL",
                                  children |-> [i \in 1 .. N |-> arg.rs[i].id],
                                  caption |-> caption, access_token |-> token]]
              /\ res.trace[N + 2] =
                    [kind |-> "media_publish", target |-> IgReal,
                     payload |-> [creation_id |-> arg.rs[N + 1].id,
                                  access_token |-> token]]

\* C15: post_carousel has published a carousel of three images, the second
\* different from the first, after five requests
C15_Witness ==
    /\ arg # None
    /\ res # None
    /\ arg.op = "post_carousel"
    /\ arg.access_token = TokReal
    /\ arg.image_urls = <<UrlPublic, UrlPublic2, UrlPublic>>
    /\ res.k = "id"
    /\ Len(res.trace) = 5

\* C16: when the creation of the k-th child container of a carousel fails
\* (answer that is not 200, 200 answer without id, or network fault),
\* post_carousel returns an error result and has issued the k child requests
\* of the first k images only: no further child, no parent, no publish, no
\* retry.
C16_CarouselFailFast ==
    (arg # None /\ res # None /\ arg.op = "post_carousel")
    => LET N == Len(arg.image_urls)
           token == IF arg.access_token # None THEN arg.access_token
                    ELSE arg.default_token
       IN  \A k \in 1 .. N :
              ( /\ token = None \/ ~StartsWith(token, TEST)
                /\ arg.rs[k].body \in {"error", "noid", "neterr"}
                /\ \A j \in 1 .. k - 1 : arg.rs[j].body = "id" )
              => /\ res.k = "error"
                 /\ Len(res.trace) = k
                 /\ \A i \in 1 .. k :
                       res.trace[i] =
                           [kind |-> "media", target |-> IgReal,
                            payload |-> [image_url |-> arg.image_urls[i],
                                         is_carousel_item |-> "true",
                                         access_token |-> token]]

\* C16: post_carousel has returned an error after the second of three child
\* requests was answered with an error
C16_Witness ==
    /\ arg # None
    /\ res # None
    /\ arg.op = "post_carousel"
    /\ arg.access_token = TokReal
    /\ Len(arg.image_urls) = 3
    /\ arg.rs[1].body = "id"
    /\ arg.rs[2].body = "error"
    /\ res.k = "error"
    /\ Len(res.trace) = 2

\* C17: in post_to_instagram, post_story and post_carousel every media_publish
\* request directly follows a container-create request that was answered with
\* an id, and carries that id as creation_id; when a container-create request
\* is answered with an error (status other than 200, no id, network fault) no
\* publish request is issued and the operation returns an error result.
C17_PublishOnlyAfterCreate ==
    (arg # None /\ res # None
        /\ arg.op \in {"post_to_instagram", "post_story", "post_carousel"})
    => /\ \A p \in DOMAIN res.trace :
             res.trace[p].kind = "media_publish"
             => /\ p > 1
                /\ res.trace[p - 1].kind = "media"
                /\ arg.rs[p - 1].body = "id"
                /\ res.trace[p].payload.creation_id = arg.rs[p - 1].id
       /\ \A c \in DOMAIN res.trace :
             (res.trace[c].kind = "media"
                 /\ arg.rs[c].body \in {"error", "noid", "neterr"})
             => /\ res.k = "error"
                /\ \A p \in DOMAIN res.trace : res.trace[p].kind # "media_publish"

\* C17: post_to_instagram has published the container that the upload created
C17_Witness ==
    /\ arg # None
    /\ res # None
    /\ arg.op = "post_to_instagram"
    /\ res.k = "id"
    /\ Len(res.trace) = 3
    /\ res.trace[3].kind = "media_publish"
    /\ res.trace[3].payload.creation_id = arg.rs[2].id

\* C18: for a credential that is not a simulation one, post_to_instagram,
\* post_story and post_carousel given a media URL that does not start with
\* http:// or https://, or that addresses localhost or 127.0.0.1, return an
\* error result and issue no container-create request.
C18_UnreachableMediaFailsFast ==
    (arg # None /\ res # None
        /\ arg.op \in {"post_to_instagram", "post_story", "post_carousel"})
    => LET token == IF arg.access_token # None THEN arg.access_token
                    ELSE arg.default_token
           unreachable(url) ==
               \/ url.scheme \notin {"http", "https"}
               \/ url.host \in {"localhost", "127.0.0.1"}
       IN  ( /\ token = None \/ ~StartsWith(token, TEST)
             /\ \E i \in DOMAIN arg.image_urls : unreachable(arg.image_urls[i]) )
           => /\ res.k = "error"
              /\ \A p \in DOMAIN res.trace : res.trace[p].kind # "media"

\* C19: the step that ends an invocation of execute_scheduled_post which
\* found the account of its post missing or inactive, or else the media URL
\* list empty, and whose database operations succeeded, stores status
\* 'failed' with the fixed reason of that check, dispatches no composite
\* operation and leaves instagram_post_id and actual_post_time as they were.
C19_EarlyExits ==
    [][\A t \in Threads :
         LET id == thr[t].id
             no_account == \/ posts[id].account_id \notin DOMAIN accounts
                           \/ ~accounts[posts[id].account_id].is_active
             no_media == posts[id].media_urls = <<>>
         IN  ( /\ Leaves(t, "run")
               /\ ~arg.dbfault /\ ~arg.commitfault
               /\ no_account \/ no_media )
             => /\ posts'[id].status = "failed"
                /\ posts'[id].error_message =
                       IF no_account THEN <<"Account not found or inactive">>
                       ELSE <<"No media URLs found">>
                /\ audit' = audit
                /\ posts'[id].instagram_post_id = posts[id].instagram_post_id
                /\ posts'[id].actual_post_time = posts[id].actual_post_time]_vars

\* C19: an invocation has ended at the check of the media URL list: the post
\* of an active account is failed with the reason of that check, nothing was
\* dispatched for it and its id and post time are unset
C19_Witness ==
    /\ Len(posts) = 1
    /\ posts[1].account_id \in DOMAIN accounts
    /\ accounts[posts[1].account_id].is_active
    /\ posts[1].media_urls = <<>>
    /\ posts[1].status = "failed"
    /\ posts[1].error_message = <<"No media URLs found">>
    /\ posts[1].instagram_post_id = None
    /\ posts[1].actual_post_time = NoTime
    /\ audit[1].composites = 0

\* C20: in every reachable state a post with status 'posted' has as
\* instagram_post_id the id of a result the publisher returns for it at its
\* actual_post_time, has actual_post_time set, and has no error_message.
C20_PostedRecord ==
    \A id \in DOMAIN posts :
        posts[id].status = "posted"
        => /\ posts[id].actual_post_time # NoTime
           /\ posts[id].instagram_post_id \in
                 {r.id : r \in {q \in PossibleResults(posts[id],
                                    [accounts EXCEPT ![posts[id].account_id].is_active = TRUE],
                                    posts[id].actual_post_time) : q.k = "id"}}
           /\ posts[id].error_message = None

\* C21: in every reachable state a post with status 'failed' has an
\* error_message recorded and has neither instagram_post_id nor
\* actual_post_time set.
C21_FailedRecord ==
    \A id \in DOMAIN posts :
        posts[id].status = "failed"
        => /\ posts[id].error_message # None
           /\ posts[id].instagram_post_id = None
           /\ posts[id].actual_post_time = NoTime

\* C22: over every step, the updated_at of a post never decreases, and it
\* strictly advances in a step in which the status of the post leaves
\* 'scheduled' (every commit of execute_scheduled_post stamps it).
C22_UpdatedAtAdvances ==
    [][\A id \in DOMAIN posts :
         /\ posts'[id].updated_at >= posts[id].updated_at
         /\ (posts[id].status = "scheduled" /\ posts'[id].status # "scheduled")
            => posts'[id].updated_at > posts[id].updated_at]_vars

\* C23: the step that ends an invocation of execute_scheduled_post whose
\* publisher returned an id does not leave the stored status of the post
\* 'scheduled', also when the commit fails.
C23_AttemptNotLost ==
    [][\A t \in Threads :
         ( /\ thr[t].pc = "commit"
           /\ res[t].status = "posted"
           /\ thr'[t].pc # "commit" )
         => posts'[thr[t].id].status # "scheduled"]_vars

\* C24: every invocation of execute_scheduled_post that passed the guard
\* ends, also when the platform never answers one of the requests of the
\* publish sequence, and the post is then 'failed'.
C24_InvocationTerminates ==
    \A t \in Threads :
        (thr[t].pc = "run")
        ~> ( /\ thr[t].pc = "idle"
             /\ \A id \in DOMAIN posts :
                   Unanswered(posts[id]) => posts[id].status = "failed" )

\* C25: a queue-mode submission that has read a daily count below 25 stores
\* its post scheduled in the current UTC day, whatever other submissions
\* have stored since it read the count (so two concurrent submissions that
\* both read 24 both store a post for the day).
C25_QuotaRace ==
    [][\A t \in Threads :
         (res[t] # None /\ res'[t] = None /\ res[t].count < 25)
         => /\ Len(posts') = Len(posts) + 1
            /\ posts'[Len(posts')].status = "scheduled"
            /\ posts'[Len(posts')].scheduled_time \div 86400 = clock \div 86400]_vars

\* C25: the account has more than 25 posts that are not cancelled scheduled
\* in the current UTC day, the last two stored by queue-mode submissions
C25_Witness ==
    /\ res = [t \in Threads |-> None]
    /\ Cardinality({i \in DOMAIN posts :
                       /\ posts[i].account_id = 1
                       /\ posts[i].status # "cancelled"
                       /\ posts[i].scheduled_time \div 86400 = clock \div 86400}) > 25
    /\ Len(posts) = 26
    /\ posts[25].created_at = clock
    /\ posts[26].created_at = clock

\* C26: after any sequence of add_account requests no two stored accounts
\* have the same username and no two the same instagram_id; a request whose
\* username or instagram_id is already stored changes neither accounts nor
\* schedules, and a request that changes them appends one account, with its
\* schedule, that shares neither field with an account stored before.
C26_AccountsUnique ==
    /\ [](\A i, j \in DOMAIN accounts :
            i # j => /\ accounts[i].username # accounts[j].username
                     /\ accounts[i].instagram_id # accounts[j].instagram_id)
    /\ [][/\ (\E i \in DOMAIN accounts :
                 \/ accounts[i].username = arg'.username
                 \/ accounts[i].instagram_id = arg'.instagram_id)
             => (accounts' = accounts /\ schedules' = schedules)
          /\ (accounts' # accounts \/ schedules' # schedules)
             => /\ Len(accounts') = Len(accounts) + 1
                /\ Len(schedules') = Len(accounts')
                /\ SubSeq(accounts', 1, Len(accounts)) = accounts
                /\ \A i \in DOMAIN accounts :
                     /\ accounts[i].username # accounts'[Len(accounts')].username
                     /\ accounts[i].instagram_id # accounts'[Len(accounts')].instagram_id]_vars

\* C26: a simulation account and a validated account are stored, and the
\* request handled last, whose username the platform replaced by a stored
\* one, was rejected.
C26_Witness ==
    /\ Len(accounts) = 2
    /\ \E i \in DOMAIN accounts : ~accounts[i].validated
    /\ \E i \in DOMAIN accounts : accounts[i].validated
    /\ arg # None
    /\ arg.answer # None
    /\ arg.answer.id = arg.instagram_id
    /\ ~StartsWith(arg.access_token, TEST)
    /\ \A i \in DOMAIN accounts :
         /\ accounts[i].username # arg.username
         /\ accounts[i].instagram_id # arg.instagram_id
    /\ \E i \in DOMAIN accounts : accounts[i].username = arg.answer.username

\* C27: a submission for an account whose credential does not carry the
\* simulation prefix, one of whose files the providers give no public URL,
\* stores no Post and triggers no execution (no job, no invocation); a
\* submission for an account whose credential carries the prefix stores a
\* Post with a URL for every file and triggers its execution, whatever the
\* providers yield.
C27_NoUrlStopsSubmission ==
    [][LET account == accounts[1]
           n == IF arg'.post_type = "carousel" THEN arg'.files ELSE 1
       IN  /\ (~StartsWith(account.access_token, TEST)
                  /\ \E i \in 1 .. n : arg'.providers[i] = "none")
              => /\ posts' = posts
                 /\ jobs' = jobs
                 /\ thr' = thr
                 /\ audit' = audit
           /\ StartsWith(account.access_token, TEST)
              => /\ Len(posts') = Len(posts) + 1
                 /\ Len(posts'[Len(posts')].media_urls) = n
                 /\ \A i \in 1 .. n : posts'[Len(posts')].media_urls[i] # None
                 /\ IF arg'.schedule_type = "now"
                    THEN thr'["web"].pc = "call" /\ thr'["web"].id = Len(posts')
                    ELSE \E j \in jobs' : j.id = Len(posts')]_vars

\* C27: the request handled last was a carousel of an account with a real
\* credential whose first file got a URL and whose second got none, and
\* nothing is stored or triggered
C27_Witness ==
    /\ arg # None
    /\ ~StartsWith(accounts[1].access_token, TEST)
    /\ arg.post_type = "carousel"
    /\ arg.files = 2
    /\ arg.providers = <<"gcs", "none">>
    /\ posts = <<>>
    /\ jobs = {}
    /\ thr["web"].pc = "idle"

C29_HashtagSet ==
    res # None
    => LET active == {arg.repository[i].hashtag :
                         i \in {r \in DOMAIN arg.repository : arg.repository[r].is_active}}
           tags == res.hashtags
           used == {tags[i] : i \in DOMAIN tags}
       IN  /\ Len(tags) <= 20
           /\ \A i, j \in DOMAIN tags : i # j => tags[i] # tags[j]
           /\ used \subseteq active
           /\ Cardinality(active) <= 20 => used = active
           /\ Cardinality(active) > 20 => Len(tags) = 20
           /\ active = {} => res.caption = arg.caption
           /\ active # {} => /\ Len(res.caption) = Len(arg.caption) + 1 + Len(tags)
                             /\ SubSeq(res.caption, 1, Len(arg.caption)) = arg.caption
                             /\ \A i \in DOMAIN tags :
                                  res.caption[Len(arg.caption) + 1 + i] = <<"#", tags[i]>>

\* C29: 20 tags have been drawn from a repository of 21 active rows and an
\* inactive one
C29_Witness ==
    /\ res # None
    /\ Len(arg.repository) = 22
    /\ Cardinality({r \in DOMAIN arg.repository : arg.repository[r].is_active}) = 21
    /\ Len(res.hashtags) = 20

\* C30: the caption returned is the template in which every {account_name}
\* is the account name and every {time_period} is morning for a local hour
\* h with 5 <= h < 12, afternoon for 12 <= h < 17, evening for 17 <= h < 21
\* and night for every other h of 0..23; '{account_name} says hi at
\* {time_period}' with the name 'acme' at local hour 9 yields 'acme says hi
\* at morning'.
C30_CaptionComposition ==
    res # None
    => LET h == ((arg.utcnow + 19800) \div 3600) % 24
           period == IF h \in 5 .. 11 THEN "morning"
                     ELSE IF h \in 12 .. 16 THEN "afternoon"
                     ELSE IF h \in 17 .. 20 THEN "evening"
                     ELSE "night"
           Value(word) == IF word = "{account_name}" THEN arg.account_name
                          ELSE IF word = "{time_period}" THEN <<period>>
                          ELSE IF word = "{custom_text}" THEN arg.custom_text
                          ELSE IF word = "{date}" THEN <<"%B %d, %Y">>
                          ELSE IF word = "{time}" THEN <<"%I:%M %p">>
                          ELSE IF word = "{day_of_week}" THEN <<"%A">>
                          ELSE <<word>>
       IN  /\ h \in 0 .. 23
           /\ res.caption = Joined([i \in DOMAIN arg.template |-> Value(arg.template[i])])
           /\ (/\ arg.template = <<"{account_name}", "says", "hi", "at", "{time_period}">>
               /\ arg.account_name = <<"acme">>
               /\ h = 9)
              => res.caption = <<"acme", "says", "hi", "at", "morning">>

\* C30: the template with {account_name} three times has been composed for
\* the name 'acme' in the last second of local hour 20
C30_Witness ==
    /\ res # None
    /\ arg.template = <<"{account_name}", "{account_name}", "{custom_text}", "{account_name}">>
    /\ arg.account_name = <<"acme">>
    /\ ((arg.utcnow + 19800) \div 3600) % 24 = 20
    /\ (arg.utcnow + 19800) % 3600 = 3599
    /\ Len(res.caption) >= 3

\* C31: the time period of a caption and the slot of next_slot and of
\* auto_story are computed from the wall-clock time in the timezone
\* configured on the account's PostingSchedule: the period is that of the
\* hour in that zone, and each slot, read in that zone, falls on one of the
\* schedule's slot times, or on a cadence hour.
C31_ConfiguredTimezone ==
    res # None
    => LET offset == UtcOffset(arg.scheds[1].timezone)
           h == ((arg.utcnow + offset) \div 3600) % 24
           period == IF h \in 5 .. 11 THEN "morning"
                     ELSE IF h \in 12 .. 16 THEN "afternoon"
                     ELSE IF h \in 17 .. 20 THEN "evening"
                     ELSE "night"
       IN  /\ res.time_period = period
           /\ (res.next_slot + offset) % 86400
                \in {arg.scheds[1].time_slot_1, arg.scheds[1].time_slot_2}
           /\ (res.auto_story + offset) % 7200 = 0

\* C32: the id of the synthetic result of a feed, story or carousel publish
\* operation called with a simulation credential is 'test_', the account
\* id, '_' and the digits of the epoch seconds, the account id following
\* 'test_' directly.
C32_SyntheticIdForm ==
    (/\ arg # None
     /\ res # None
     /\ arg.op \in {"post_to_instagram", "post_story", "post_carousel"}
     /\ arg.access_token # None
     /\ StartsWith(arg.access_token, TEST)
     /\ res.k = "id")
    => /\ Len(res.id) = 4
       /\ res.id[1] = "test_"
       /\ res.id[2] = IgReal
       /\ res.id[3] = "_"
       /\ res.id[4] = ToString(clock)

\* C33: for an account with an active schedule, the scheduled time that
\* get_next_available_slot returns, jitter included, is never earlier than
\* the instant at which it was computed.
C33_SlotNotInThePast ==
    (arg # None /\ res # NoTime /\ arg.schedule.is_active)
    => res >= arg.local_now - 19800

\* C34: get_next_story_slot returns the earliest instant of the 2-hour
\* cadence (local hours 6, 8, ..., 22, 0, 2) that is strictly after the
\* current local time, and outside the gap from 02:00 to 06:00 that instant
\* is at most 4 hours after the current time.
C34_EarliestCadenceInstant ==
    (arg # None /\ res # NoTime)
    => LET day == arg.local_now \div 86400
           tod == arg.local_now % 86400
           instants == {d * 86400 + h * 3600 :
                           d \in {day, day + 1}, h \in {6, 8, 10, 12, 14, 16, 18, 20, 22, 0, 2}}
           after == {i \in instants : i > arg.local_now}
           earliest == CHOOSE i \in after : \A j \in after : i <= j
       IN  /\ res + 19800 = earliest
           /\ ~(tod >= 2 * 3600 /\ tod < 6 * 3600)
              => res + 19800 - arg.local_now <= 4 * 3600

\* C35: whatever status codes the server answers, a run of a stand-alone
\* script issues no publish request with a missing creation id, and it does
\* not end with exit status 0 without the id of what it published.
C35_StepReturnsIdOrRaises ==
    (arg # None /\ res # None /\ arg.op \in {"carousel_post", "story_post"})
    => /\ \A i \in DOMAIN res.trace :
            res.trace[i].kind = "media_publish"
            => res.trace[i].payload.creation_id # None
       /\ ExitStatus(res) = 0 => res.id # None

\* C36: a retrying step of the stand-alone scripts issues at most 3
\* requests; it issues none after the first 200 answer, at which it returns
\* the id, or raises when the answer has none; and the waits between its
\* consecutive attempts strictly increase: 2 s after the first failed
\* attempt, 4 s after the second.
C36_RetryPolicy ==
    res # None
    => LET requests == Len(res.trace)
           ok == {k \in 1 .. 3 : arg.rs[k].st = 200}
       IN  /\ requests >= 1
           /\ requests <= 3
           /\ \A k \in ok : requests <= k
           /\ \A k \in 1 .. requests - 1 : arg.rs[k].st \notin {0, 200}
           /\ arg.rs[requests].st = 200
              => IF arg.rs[requests].body = "id"
                 THEN res.k = "id" /\ res.id = arg.rs[requests].id
                 ELSE res.k = "raise"
           /\ Len(res.waits) >= requests - 1
           /\ \A i \in 1 .. requests - 1 : res.waits[i] = 2 * i
           /\ \A i \in 1 .. requests - 2 : res.waits[i] < res.waits[i + 1]

\* C36: a step whose first two requests were answered with an error status
\* and whose third was answered 200 with an id has waited 2 s and 4 s and
\* returned the id
C36_Witness ==
    /\ res # None
    /\ arg.rs[1].st = 400
    /\ arg.rs[2].st = 400
    /\ arg.rs[3].body = "id"
    /\ Len(res.trace) = 3
    /\ res.waits = <<2, 4>>
    /\ res.k = "id"

\* C37: sort_files_by_order returns a permutation of its input files,
\* whatever the order array: the list returned is as long as the input and
\* every input file is in it exactly once.
C37_OrderIsPermutation ==
    res # None
    => /\ Len(res.files) = Len(arg.files)
       /\ \A i \in DOMAIN arg.files :
            Cardinality({j \in DOMAIN res.files : res.files[j] = arg.files[i]}) = 1

====
